---------------------------- MODULE Spec2Model ----------------------------
(***************************************************************************)
(* A model of the eventdetector helpers and model trainer:                 *)
(*   - sliding_windows / convert_dataframe_to_sliding_windows              *)
(*   - op (overlap target per sliding window)                              *)
(*   - remove_close_events                                                 *)
(*   - check_time_unit                                                     *)
(*   - ModelTrainer.fitting_models / train_meta_model                      *)
(* Timestamps are integers (ticks of the dataset's time unit); a data      *)
(* frame is a record of its index, its column names and its rows.          *)
(* Each family of operations has its own specification (SpecWin, SpecOp,   *)
(* SpecEv, SpecTU, SpecFit, SpecMeta) over the same variables.             *)
(***************************************************************************)
EXTENDS Integers, Sequences, FiniteSets, TLC

VARIABLES
    pc,                    \* position of the operation under study
    dataset,               \* the caller's data frame
    width, step,           \* sliding window parameters
    sw,                    \* the windows returned (<<>> when none)
    fill_method,           \* convert_dataframe_to_sliding_windows(): policy
    raised,                \* the exception raised ("none" when none)
    events_as_intervals,   \* op(): list of event intervals
    starting_event_index,  \* op(): cursor (0-based, as in the source)
    op_values,             \* op(): values appended so far
    widx,                  \* op(): number of windows iterated so far
    op_x,                  \* op(): the windows returned, timestamps removed
    events_df,             \* remove_close_events(): rows (label, middle_event)
    delta_unit_time,       \* remove_close_events(): minimum gap, in units
    unit,                  \* remove_close_events(): the TimeUnit
    events_out,            \* remove_close_events(): rows kept
    diff,                  \* check_time_unit(): the duration
    tu_result,             \* check_time_unit(): (t_s, time_unit) returned
    best_models,           \* ModelTrainer.best_models: name -> model object
    created_models,        \* fitting_models(): name -> model object
    losses,                \* test loss of each created model
    epsilon,               \* ModelTrainer.epsilon
    calls,                 \* number of fitting_models calls so far
    test_y,                \* data_splitter.test_y
    predictions,           \* train_meta_model(): name -> predicted_y
    meta_result,           \* train_meta_model(): value returned
    type_training,         \* train_meta_model(): "ffn" or another mode
    test_size,             \* data_splitter.test_size, a fraction
    saved_models,          \* names of the models saved under MODELS_DIR
    meta_fit,              \* train_meta_model(): data given to the FFN
    mm_index,              \* MetaModel: dataset.index
    args_valid,            \* MetaModel: validate_args accepts the arguments
    cwd,                   \* MetaModel: current directory of the process
    output_dir_arg,        \* MetaModel.__init__: the output_dir argument
    output_dir,            \* MetaModel.output_dir
    fs,                    \* directories on disk: path -> files inside
    warned,                \* MetaModel: "exists and will be deleted" logged
    mm_done,               \* MetaModel.__init__: steps completed, in order
    run,                   \* number of the MetaModel construction
    time_sampling,         \* MetaModel: (t_s, time_unit, w_s, s_s)
    ev_times,              \* events_df[MIDDLE_EVENT_LABEL], in ticks
    time_window,           \* get_union_times_events(): window_size
    events_times,          \* get_union_times_events(): value returned
    within,                \* get_dataset_within_events_times(): returned
    events_in,             \* compute_middle_event(): the events argument
    tz,                    \* local time zone of the process
    middle_out,            \* compute_middle_event(): middle dates returned
    models,                \* MetaModel.models: names of the models to create
    bs_done,               \* build_stacking_learning(): steps completed
    predicted_op,          \* OptimizationData.predicted_op
    plotter_op,            \* Plotter: (test_y, predicted_y) of set_data_op
    hyperparams_ffn,       \* train_meta_model(): (max_layers, min_units, max_units)
    meta_layers,           \* train_meta_model(): layers added to the FFN builder
    events_again           \* remove_close_events() applied to its own output

winVars == <<dataset, width, step, sw, fill_method>>
opVars  == <<events_as_intervals, starting_event_index, op_values, widx, op_x>>
evVars  == <<events_df, delta_unit_time, unit, events_out>>
tuVars  == <<diff, tu_result>>
trVars  == <<best_models, created_models, losses, epsilon, calls, test_y,
             predictions, meta_result, type_training, test_size, saved_models,
             meta_fit>>
mmVars  == <<mm_index, args_valid, cwd, output_dir_arg, output_dir, fs,
             warned, mm_done, run, time_sampling>>
utVars  == <<ev_times, time_window, events_times, within>>
meVars  == <<events_in, tz, middle_out>>
bsVars  == <<models, bs_done, predicted_op, plotter_op>>
ffVars  == <<hyperparams_ffn, meta_layers>>
idVars  == <<events_again>>
vars    == <<pc, raised, winVars, opVars, evVars, tuVars, trVars, mmVars,
             utVars,
             meVars,
             bsVars,
             ffVars,
             idVars>>

-----------------------------------------------------------------------------
(* Bounds of the model *)

MaxRows == 4        \* rows of a dataset
MaxTime == 4        \* last tick of the time axis of op()
MaxEvents == 2      \* events handed to op()
MaxMid == 3         \* largest event midpoint, in units (besides 100)
MaxGap == 3         \* largest minimum gap, in units (besides 10)
MaxEv == 3          \* events handed to remove_close_events()
MaxMag == 3         \* largest multiple of a unit handed to check_time_unit()
MaxCalls == 2       \* calls of fitting_models on one trainer
MaxTest == 2        \* samples of the test set

-----------------------------------------------------------------------------
(* Generic helpers *)

Max2(a, b) == IF a >= b THEN a ELSE b
Min2(a, b) == IF a <= b THEN a ELSE b

RECURSIVE Gcd(_, _)
Gcd(a, b) == IF b = 0 THEN a ELSE Gcd(b, a % b)

\* Rationals as reduced fractions n/d with d > 0
Frac(n, d) == LET g == Gcd(n, d) IN [n |-> n \div g, d |-> d \div g]
FracZero == [n |-> 0, d |-> 1]
FracOne == [n |-> 1, d |-> 1]
FracLE(a, b) == a.n * b.d <= b.n * a.d
FracLT(a, b) == a.n * b.d < b.n * a.d
FracAdd(a, b) == Frac(a.n * b.d + b.n * a.d, a.d * b.d)

RECURSIVE SumSeq(_)
SumSeq(s) == IF s = <<>> THEN 0 ELSE Head(s) + SumSeq(Tail(s))

RECURSIVE Concat(_)
Concat(ss) == IF ss = <<>> THEN <<>> ELSE Head(ss) \o Concat(Tail(ss))

Last(s) == s[Len(s)]

-----------------------------------------------------------------------------
(* Variables a specification does not use keep these values *)

IdleWin == dataset = [index |-> <<>>, columns |-> <<>>, rows |-> <<>>]
           /\ width = 0 /\ step = 0 /\ sw = <<>> /\ fill_method = "None"
IdleOp  == events_as_intervals = <<>> /\ starting_event_index = 0
           /\ op_values = <<>> /\ widx = 0 /\ op_x = <<>>
IdleEv  == events_df = <<>> /\ delta_unit_time = 0 /\ unit = "SECOND"
           /\ events_out = <<>>
IdleTU  == diff = [days |-> 0, seconds |-> 0, microseconds |-> 0]
           /\ tu_result = <<>>
IdleTr  == best_models = << >> /\ created_models = << >> /\ losses = << >>
           /\ epsilon = 0 /\ calls = 0 /\ test_y = <<>>
           /\ predictions = << >> /\ meta_result = <<>>
           /\ type_training = "average" /\ test_size = [n |-> 1, d |-> 5]
           /\ saved_models = {} /\ meta_fit = <<>>
IdleMM  == mm_index = <<>> /\ args_valid = TRUE /\ cwd = <<>>
           /\ output_dir_arg = [abs |-> FALSE, parts |-> <<>>]
           /\ output_dir = [abs |-> FALSE, parts |-> <<>>]
           /\ fs = << >> /\ warned = FALSE /\ mm_done = <<>> /\ run = 0
           /\ time_sampling = <<>>
IdleUT  == ev_times = <<>> /\ time_window = 0 /\ events_times = <<>>
           /\ within = <<>>
IdleME  == events_in = <<>> /\ tz = "UTC" /\ middle_out = <<>>
IdleBS  == models = {} /\ bs_done = <<>> /\ predicted_op = <<>> /\ plotter_op = <<>>
IdleFF  == hyperparams_ffn = <<1, 1, 1>> /\ meta_layers = <<>>
IdleId  == events_again = <<>>

-----------------------------------------------------------------------------
(* Data frames and sliding windows: helpers.py *)

TIME_LABEL == "time"
FeatVals == {0, 1}

\* A frame of one feature column "f" over the given index
Frame(index, feats) ==
    [index |-> index, columns |-> <<"f">>,
     rows |-> [i \in 1..Len(index) |-> <<feats[i]>>]]

ColumnPos(df, name) == CHOOSE c \in 1..Len(df.columns) : df.columns[c] = name

\* dataframe[TIME_LABEL] = dataframe.index.to_pydatetime(): the column is
\* appended when absent and overwritten in place when present
SetTimeColumn(df) ==
    IF \E c \in 1..Len(df.columns) : df.columns[c] = TIME_LABEL
    THEN [df EXCEPT !.rows = [i \in 1..Len(df.rows) |->
                [df.rows[i] EXCEPT ![ColumnPos(df, TIME_LABEL)] = df.index[i]]]]
    ELSE [df EXCEPT !.columns = Append(df.columns, TIME_LABEL),
                    !.rows = [i \in 1..Len(df.rows) |->
                                Append(df.rows[i], df.index[i])]]

\* dataframe.to_numpy(): a row-major buffer with its shape
to_numpy(df) ==
    [buf |-> Concat(df.rows), shape |-> <<Len(df.rows), Len(df.columns)>>,
     strides |-> <<Len(df.columns), 1>>]

\* numpy.lib.stride_tricks.as_strided on a 2-d array, 3-d result:
\* element (k, i, c) is read at offset k*strides[1] + i*strides[2] + c*strides[3]
as_strided(data, shape, strides) ==
    [k \in 1..shape[1] |-> [i \in 1..shape[2] |-> [c \in 1..shape[3] |->
        data.buf[(k - 1) * strides[1] + (i - 1) * strides[2]
                 + (c - 1) * strides[3] + 1]]]]

\* nb_windows without the trailing + 1
nb_windows_NoPlusOne(n, w, s) == (n - w) \div s
nb_windows(n, w, s) == (n - w) \div s + 1

\* sliding_windows advancing by step elements instead of step rows
sliding_windows_ElementStride(data, w, s) ==
    IF w > data.shape[1] THEN [raised |-> "ValueError", value |-> <<>>]
    ELSE IF s > w THEN [raised |-> "ValueError", value |-> <<>>]
    ELSE IF s = 0 THEN [raised |-> "ZeroDivisionError", value |-> <<>>]
    ELSE [raised |-> "none",
          value |-> as_strided(data,
                               <<nb_windows(data.shape[1], w, s), w, data.shape[2]>>,
                               <<s, data.strides[1], data.strides[2]>>)]

\* sliding_windows(data, width, step): the windows, or the exception raised
sliding_windows(data, w, s) ==
    IF w > data.shape[1] THEN [raised |-> "ValueError", value |-> <<>>]
    ELSE IF s > w THEN [raised |-> "ValueError", value |-> <<>>]
    ELSE IF s = 0 THEN [raised |-> "ZeroDivisionError", value |-> <<>>]
    ELSE [raised |-> "none",
          value |-> as_strided(data,
                               <<nb_windows(data.shape[1], w, s), w, data.shape[2]>>,
                               <<s * data.strides[1], data.strides[1], data.strides[2]>>)]

\* A missing value (NaN); observed feature values are not negative
NaN == -1
IsNaN(v) == v = NaN

\* fill_method: Python's None and the names of the policies
None == "None"
FILL_NAN_ZEROS == "zeros"
FILL_NAN_FFILL == "ffill"
FILL_NAN_BFILL == "bfill"
FILL_NAN_MEDIAN == "median"

Column(df, c) == [i \in 1..Len(df.rows) |-> df.rows[i][c]]

\* The value observed at or before position i (NaN when there is none)
RECURSIVE FFillAt(_, _)
FFillAt(col, i) ==
    IF i = 0 THEN NaN
    ELSE IF ~IsNaN(col[i]) THEN col[i] ELSE FFillAt(col, i - 1)

\* The value observed at or after position i (NaN when there is none)
RECURSIVE BFillAt(_, _)
BFillAt(col, i) ==
    IF i > Len(col) THEN NaN
    ELSE IF ~IsNaN(col[i]) THEN col[i] ELSE BFillAt(col, i + 1)

\* The values of a sequence in non-decreasing order
RECURSIVE SortValues(_)
SortValues(s) ==
    IF s = <<>> THEN <<>>
    ELSE LET k == CHOOSE i \in 1..Len(s) : \A j \in 1..Len(s) : s[i] <= s[j]
         IN <<s[k]>> \o SortValues(SubSeq(s, 1, k - 1) \o SubSeq(s, k + 1, Len(s)))

\* The median taken over the missing values too
Median_WithMissing(col) ==
    LET s == SortValues(col)
        n == Len(s)
    IN IF n = 0 THEN NaN
       ELSE IF n % 2 = 1 THEN s[(n + 1) \div 2]
       ELSE (s[n \div 2] + s[n \div 2 + 1]) \div 2

\* Series.median(): the median of the values that are not missing (NaN
\* when all are); feature values are even, so the mean of the two middle
\* values is whole
Median(col) ==
    LET s == SortValues(SelectSeq(col, LAMBDA v : ~IsNaN(v)))
        n == Len(s)
    IN IF n = 0 THEN NaN
       ELSE IF n % 2 = 1 THEN s[(n + 1) \div 2]
       ELSE (s[n \div 2] + s[n \div 2 + 1]) \div 2

\* fillna(value) on one column; a NaN value fills nothing
FillNa(col, value) ==
    [i \in 1..Len(col) |-> IF IsNaN(col[i]) THEN value ELSE col[i]]

\* One column after df.fillna(0), df.ffill(), df.bfill() or
\* df.fillna(df.median())
FillColumn(col, method) ==
    IF method = FILL_NAN_ZEROS THEN FillNa(col, 0)
    ELSE IF method = FILL_NAN_FFILL
    THEN [i \in 1..Len(col) |-> FFillAt(col, i)]
    ELSE IF method = FILL_NAN_BFILL
    THEN [i \in 1..Len(col) |-> BFillAt(col, i)]
    ELSE FillNa(col, Median(col))

\* The frame with every column filled
MapColumns(df, method) ==
    [df EXCEPT !.rows = [i \in 1..Len(df.rows) |->
        [c \in 1..Len(df.columns) |->
            FillColumn(Column(df, c), method)[i]]]]

\* The fill branches of convert_dataframe_to_sliding_windows
fill(df, method) ==
    IF method = FILL_NAN_ZEROS
    THEN [raised |-> "none", value |-> MapColumns(df, FILL_NAN_ZEROS)]
    ELSE IF method = FILL_NAN_FFILL
    THEN [raised |-> "none", value |-> MapColumns(df, FILL_NAN_FFILL)]
    ELSE IF method = FILL_NAN_BFILL
    THEN [raised |-> "none", value |-> MapColumns(df, FILL_NAN_BFILL)]
    ELSE IF method = FILL_NAN_MEDIAN
    THEN [raised |-> "none", value |-> MapColumns(df, FILL_NAN_MEDIAN)]
    ELSE IF method # None
    THEN [raised |-> "ValueError", value |-> df]
    ELSE [raised |-> "none", value |-> df]

\* Datasets of the window specification: a regular index and any features
WinDatasets ==
    { Frame([i \in 1..n |-> t0 + (i - 1) * dt], feats) :
        <<n, t0, dt, feats>> \in
            { q \in (1..MaxRows) \X {0, 1} \X {1, 2} \X UNION { [1..m -> FeatVals] : m \in 1..MaxRows } :
                Len(q[4]) = q[1] } }

InitWin ==
    /\ pc = "start"
    /\ raised = "none"
    /\ dataset \in WinDatasets
    /\ width \in 0..(MaxRows + 1)
    /\ step \in 0..(MaxRows + 1)
    /\ sw = <<>>
    /\ fill_method = None
    /\ IdleOp /\ IdleEv /\ IdleTU /\ IdleTr /\ IdleMM /\ IdleUT /\ IdleME /\ IdleBS /\ IdleFF /\ IdleId

\* convert_dataframe_to_sliding_windows(dataset, width, step, fill_method):
\* the caller's frame gets the time column, the missing values of a copy
\* are filled, and sliding_windows builds the windows of the copy or raises
ConvertToSlidingWindows ==
    /\ pc = "start"
    /\ LET df == SetTimeColumn(dataset)
           filled == fill(df, fill_method)
           r == IF filled.raised # "none"
                THEN [raised |-> filled.raised, value |-> <<>>]
                ELSE sliding_windows(to_numpy(filled.value), width, step)
       IN /\ dataset' = df
          /\ sw' = r.value
          /\ raised' = r.raised
    /\ pc' = "done"
    /\ UNCHANGED <<width, step, fill_method, opVars, evVars, tuVars, idVars, ffVars, bsVars, meVars,
                   utVars, mmVars, trVars>>

NextWin == ConvertToSlidingWindows

SpecWin == InitWin /\ [][NextWin]_vars

\* C1: for 1 <= step <= width <= N the call returns floor((N - width)/step) + 1
\* windows of width rows each; for width > N or step > width it raises the
\* invalid-input error (ValueError) and returns no windows.
C1_WindowCount ==
    pc = "done" =>
        LET N == Len(dataset.rows) IN
        /\ (1 <= step /\ step <= width /\ width <= N) =>
              /\ raised = "none"
              /\ Len(sw) = (N - width) \div step + 1
              /\ \A k \in 1..Len(sw) : Len(sw[k]) = width
        /\ (width > N \/ step > width) =>
              /\ raised = "ValueError"
              /\ sw = <<>>

C1_Witness ==
    /\ pc = "done" /\ raised = "none"
    /\ step = 2 /\ width = 2 /\ Len(dataset.rows) = 4 /\ Len(sw) = 2

\* C2: the k-th window (from 0) is rows k*step .. k*step+width-1 of the
\* dataset in order, and the last column of each of its rows is that row's
\* own timestamp.
C2_WindowRows ==
    (pc = "done" /\ raised = "none") =>
        \A k \in 1..Len(sw) :
            /\ Len(sw[k]) = width
            /\ \A i \in 1..width :
                  /\ sw[k][i] = dataset.rows[(k - 1) * step + i]
                  /\ Last(sw[k][i]) = dataset.index[(k - 1) * step + i]

C2_Witness ==
    /\ pc = "done" /\ raised = "none"
    /\ step = 2 /\ width = 3 /\ Len(sw) = 1
    /\ Len(dataset.rows) = 4
    /\ sw[1][3] = dataset.rows[3]

-----------------------------------------------------------------------------
(* Interval: eventdetector/data/interval.py (not among the sources) *)

Interval(s, e) == [start_time |-> s, end_time |-> e]

\* Duration shared by two intervals (0 when they do not intersect)
overlap(a, b) ==
    Max2(0, Min2(a.end_time, b.end_time) - Max2(a.start_time, b.start_time))

\* overlapping_parameter: shared duration over the duration of the union;
\* 0 when the intervals share no positive duration
overlapping_parameter(a, b) ==
    LET inter == overlap(a, b)
        union == (a.end_time - a.start_time) + (b.end_time - b.start_time) - inter
    IN IF inter = 0 THEN FracZero ELSE Frac(inter, union)

-----------------------------------------------------------------------------
(* op(): helpers.py *)

\* ScanEvents with "window start > event end" as the test to pass an event
RECURSIVE ScanEvents_StrictSkip(_, _, _, _, _)
ScanEvents_StrictSkip(window_interval, evs, event_index, cursor, current_op_value) ==
    IF event_index >= Len(evs)
    THEN [cursor |-> cursor, value |-> current_op_value]
    ELSE LET current_event_interval == evs[event_index + 1] IN
         IF window_interval.start_time > current_event_interval.end_time
         THEN ScanEvents_StrictSkip(window_interval, evs, event_index + 1,
                                    event_index + 1, current_op_value)
         ELSE LET p == overlapping_parameter(window_interval,
                                             current_event_interval) IN
              IF p = FracZero
              THEN [cursor |-> cursor, value |-> current_op_value]
              ELSE ScanEvents_StrictSkip(window_interval, evs, event_index + 1,
                              cursor,
                              IF FracLT(current_op_value, p) THEN p
                              ELSE current_op_value)

\* ScanEvents adding the overlapping parameters up instead of keeping the largest
RECURSIVE ScanEvents_Sum(_, _, _, _, _)
ScanEvents_Sum(window_interval, evs, event_index, cursor, current_op_value) ==
    IF event_index >= Len(evs)
    THEN [cursor |-> cursor, value |-> current_op_value]
    ELSE LET current_event_interval == evs[event_index + 1] IN
         IF window_interval.start_time >= current_event_interval.end_time
         THEN ScanEvents_Sum(window_interval, evs, event_index + 1,
                             event_index + 1, current_op_value)
         ELSE LET p == overlapping_parameter(window_interval,
                                             current_event_interval) IN
              IF p = FracZero
              THEN [cursor |-> cursor, value |-> current_op_value]
              ELSE ScanEvents_Sum(window_interval, evs, event_index + 1, cursor,
                                  FracAdd(current_op_value, p))

\* ScanEvents passing an event as soon as the window starts at or after the
\* event's start
RECURSIVE ScanEvents_SkipByStart(_, _, _, _, _)
ScanEvents_SkipByStart(window_interval, evs, event_index, cursor, current_op_value) ==
    IF event_index >= Len(evs)
    THEN [cursor |-> cursor, value |-> current_op_value]
    ELSE LET current_event_interval == evs[event_index + 1] IN
         IF window_interval.start_time >= current_event_interval.start_time
         THEN ScanEvents_SkipByStart(window_interval, evs, event_index + 1,
                                     event_index + 1, current_op_value)
         ELSE LET p == overlapping_parameter(window_interval,
                                             current_event_interval) IN
              IF p = FracZero
              THEN [cursor |-> cursor, value |-> current_op_value]
              ELSE ScanEvents_SkipByStart(window_interval, evs,
                              event_index + 1, cursor,
                              IF FracLT(current_op_value, p) THEN p
                              ELSE current_op_value)

\* The inner loop of op() for one window, from event_index on:
\* the cursor and the op value when the loop ends
RECURSIVE ScanEvents(_, _, _, _, _)
ScanEvents(window_interval, evs, event_index, cursor, current_op_value) ==
    IF event_index >= Len(evs)
    THEN [cursor |-> cursor, value |-> current_op_value]
    ELSE LET current_event_interval == evs[event_index + 1] IN
         IF window_interval.start_time >= current_event_interval.end_time
         THEN ScanEvents(window_interval, evs, event_index + 1,
                         event_index + 1, current_op_value)
         ELSE LET p == overlapping_parameter(window_interval,
                                             current_event_interval) IN
              IF p = FracZero
              THEN [cursor |-> cursor, value |-> current_op_value]
              ELSE ScanEvents(window_interval, evs, event_index + 1, cursor,
                              IF FracLT(current_op_value, p) THEN p
                              ELSE current_op_value)

\* The interval of a raw window: timestamps of its first and last rows
WindowInterval(window) == Interval(Last(window[1]), Last(Last(window)))

\* One iteration of "for window in dataset_as_sliding_windows"
OpOneWindow(window, evs, cursor) ==
    ScanEvents(WindowInterval(window), evs, cursor, cursor, FracZero)

\* np.delete(dataset_as_sliding_windows, -1, axis=2)
DeleteLastColumn(windows) ==
    [k \in 1..Len(windows) |-> [i \in 1..Len(windows[k]) |->
        SubSeq(windows[k][i], 1, Len(windows[k][i]) - 1)]]

Ticks == 0..MaxTime
Intervals == { Interval(s, e) : <<s, e>> \in { q \in Ticks \X Ticks : q[1] <= q[2] } }
EventLists == UNION { [1..m -> Intervals] : m \in 0..MaxEvents }

\* Datasets of the op specification: one row per tick, in time order or reversed
OpDatasets ==
    { SetTimeColumn(Frame([i \in 1..(MaxTime + 1) |-> i - 1],
                          [i \in 1..(MaxTime + 1) |-> 0])),
      SetTimeColumn(Frame([i \in 1..(MaxTime + 1) |-> MaxTime + 1 - i],
                          [i \in 1..(MaxTime + 1) |-> 0])) }

InitOp ==
    /\ pc = "op"
    /\ raised = "none"
    /\ dataset \in OpDatasets
    /\ width \in 1..(MaxTime + 1)
    /\ step \in 1..width
    /\ sw = sliding_windows(to_numpy(dataset), width, step).value
    /\ fill_method = None
    /\ events_as_intervals \in EventLists
    /\ starting_event_index = 0
    /\ op_values = <<>>
    /\ widx = 0
    /\ op_x = <<>>
    /\ IdleEv /\ IdleTU /\ IdleTr /\ IdleMM /\ IdleUT /\ IdleME /\ IdleBS /\ IdleFF /\ IdleId

\* op(): one iteration of the loop over the windows
OpWindow ==
    /\ pc = "op"
    /\ widx < Len(sw)
    /\ LET r == OpOneWindow(sw[widx + 1], events_as_intervals,
                            starting_event_index)
       IN /\ starting_event_index' = r.cursor
          /\ op_values' = Append(op_values, r.value)
    /\ widx' = widx + 1
    /\ UNCHANGED <<pc, raised, winVars, events_as_intervals, op_x, evVars,
                   tuVars, idVars, ffVars, bsVars, meVars, utVars, mmVars, trVars>>

\* op(): the loop is over; strip the timestamps and return
OpReturn ==
    /\ pc = "op"
    /\ widx = Len(sw)
    /\ op_x' = DeleteLastColumn(sw)
    /\ pc' = "done"
    /\ UNCHANGED <<raised, winVars, events_as_intervals, starting_event_index,
                   op_values, widx, evVars, tuVars, idVars, ffVars, bsVars, meVars, utVars, mmVars, trVars>>

NextOp == OpWindow \/ OpReturn

SpecOp == InitOp /\ [][NextOp]_vars

\* The largest overlapping_parameter of a window with any event of the list
\* (0 for an empty list), by comparing the window with every event
MaxOverlap(window, evs) ==
    LET ps == { overlapping_parameter(WindowInterval(window), evs[j]) :
                    j \in 1..Len(evs) } \cup {FracZero}
    IN CHOOSE p \in ps : \A q \in ps : FracLE(q, p)

WindowsInStartOrder ==
    \A k \in 1..Len(sw) : \A l \in k..Len(sw) :
        WindowInterval(sw[k]).start_time <= WindowInterval(sw[l]).start_time

EventsSortedByStart ==
    \A i \in 1..Len(events_as_intervals) : \A j \in i..Len(events_as_intervals) :
        events_as_intervals[i].start_time <= events_as_intervals[j].start_time

EventsSortedByEnd ==
    \A i \in 1..Len(events_as_intervals) : \A j \in i..Len(events_as_intervals) :
        events_as_intervals[i].end_time <= events_as_intervals[j].end_time

EventsPositive ==
    \A i \in 1..Len(events_as_intervals) :
        events_as_intervals[i].start_time < events_as_intervals[i].end_time

\* Every window iterated so far has exactly one op value, and it is the
\* largest overlapping_parameter of the window with any event of the list
SweepIsMaxOverlap ==
    /\ Len(op_values) = widx
    /\ pc = "done" => Len(op_values) = Len(sw)
    /\ \A k \in 1..Len(op_values) :
          op_values[k] = MaxOverlap(sw[k], events_as_intervals)

\* C3 as stated: for windows in start-time order and event intervals sorted by
\* time (by their start times), op() gives each window the largest
\* overlapping_parameter over the whole list, one value per window.
C3_Original ==
    (WindowsInStartOrder /\ EventsSortedByStart) => SweepIsMaxOverlap

\* C3 amended: the same, for event intervals of positive duration whose start
\* times and end times are both non-decreasing along the list.
C3_SweepIsMax ==
    (WindowsInStartOrder /\ EventsSortedByStart /\ EventsSortedByEnd
       /\ EventsPositive) => SweepIsMaxOverlap

C3_Witness ==
    /\ pc = "done"
    /\ WindowsInStartOrder /\ EventsSortedByStart /\ EventsSortedByEnd
    /\ EventsPositive
    /\ Len(events_as_intervals) = 2
    /\ starting_event_index = 2
    /\ \E k \in 1..Len(op_values) : op_values[k] = FracOne
    /\ \E k \in 1..Len(op_values) :
          op_values[k] # FracZero /\ op_values[k] # FracOne
    /\ op_values[Len(op_values)] = FracZero

NoTemporalOverlap(window, evs) ==
    \A j \in 1..Len(evs) : overlap(WindowInterval(window), evs[j]) = 0

\* C4: for any windows and any list of event intervals, sorted or not, every
\* op value lies in [0, 1], and a window that overlaps no event interval in
\* time gets the value 0.
C4_OpBounded ==
    \A k \in 1..Len(op_values) :
        /\ FracLE(FracZero, op_values[k])
        /\ FracLE(op_values[k], FracOne)
        /\ NoTemporalOverlap(sw[k], events_as_intervals) =>
              op_values[k] = FracZero

C4_Witness ==
    /\ pc = "done"
    /\ ~EventsSortedByStart
    /\ Len(op_values) >= 2
    /\ \E k \in 1..Len(op_values) : op_values[k] = FracOne
    /\ \E k \in 1..Len(op_values) :
          /\ NoTemporalOverlap(sw[k], events_as_intervals)
          /\ op_values[k] = FracZero

-----------------------------------------------------------------------------
(* Durations and time units: helpers.py *)

TimeUnits == {"MICROSECOND", "MILLISECOND", "SECOND", "MINUTE", "HOUR", "DAY",
              "YEAR"}

\* datetime.timedelta keeps (days, seconds, microseconds) normalised:
\* 0 <= seconds < 86400 and 0 <= microseconds < 1000000
timedelta(d, sec, us) ==
    LET s2 == sec + (us \div 1000000)
    IN [days |-> d + (s2 \div 86400), seconds |-> s2 % 86400,
        microseconds |-> us % 1000000]

TdSub(a, b) ==
    timedelta(a.days - b.days, a.seconds - b.seconds,
              a.microseconds - b.microseconds)

TdAdd(a, b) ==
    timedelta(a.days + b.days, a.seconds + b.seconds,
              a.microseconds + b.microseconds)

TdLT(a, b) ==
    \/ a.days < b.days
    \/ a.days = b.days /\ a.seconds < b.seconds
    \/ a.days = b.days /\ a.seconds = b.seconds
         /\ a.microseconds < b.microseconds

TdLE(a, b) == a = b \/ TdLT(a, b)

\* get_timedelta(delta_unit_time, unit)
get_timedelta(n, u) ==
    CASE u = "MICROSECOND" -> timedelta(0, 0, n)
      [] u = "MILLISECOND" -> timedelta(0, 0, n * 1000)
      [] u = "SECOND"      -> timedelta(0, n, 0)
      [] u = "MINUTE"      -> timedelta(0, n * 60, 0)
      [] u = "HOUR"        -> timedelta(0, n * 3600, 0)
      [] u = "DAY"         -> timedelta(n, 0, 0)
      [] u = "YEAR"        -> timedelta(n * 365, 0, 0)

-----------------------------------------------------------------------------
(* remove_close_events(): helpers.py *)

\* "if (mid_time1 - mid_time) < delta" in place of "<="
TooClose_Strict(mid_time1, mid_time, delta) ==
    TdLT(TdSub(mid_time1, mid_time), delta)

\* "if (mid_time1 - mid_time) <= delta"
TooClose(mid_time1, mid_time, delta) ==
    TdLE(TdSub(mid_time1, mid_time), delta)

\* The inner loop ending after the first event it marks
MarkAfter_FirstOnly(df, i, j, delta, events_to_delete) ==
    IF j > Len(df) THEN events_to_delete
    ELSE IF TooClose(df[j].middle_event, df[i].middle_event, delta)
         THEN Append(events_to_delete, j)
         ELSE events_to_delete

\* The loop "for j in range(i + 1, len(events_df))" (positions from 1 here)
RECURSIVE MarkAfter(_, _, _, _, _)
MarkAfter(df, i, j, delta, events_to_delete) ==
    IF j > Len(df) THEN events_to_delete
    ELSE IF TooClose(df[j].middle_event, df[i].middle_event, delta)
         THEN MarkAfter(df, i, j + 1, delta, Append(events_to_delete, j))
         ELSE events_to_delete

\* The loop "for i in range(len(events_df))"
RECURSIVE MarkAll(_, _, _, _)
MarkAll(df, i, delta, events_to_delete) ==
    IF i > Len(df) THEN events_to_delete
    ELSE IF \E k \in 1..Len(events_to_delete) : events_to_delete[k] = i
         THEN MarkAll(df, i + 1, delta, events_to_delete)
         ELSE MarkAll(df, i + 1, delta,
                      MarkAfter(df, i, i + 1, delta, events_to_delete))

\* events_df.drop(events_df.index[events_to_delete]): drops rows by label
Drop(df, events_to_delete) ==
    LET labels == { df[events_to_delete[k]].label :
                        k \in 1..Len(events_to_delete) }
    IN SelectSeq(df, LAMBDA row : row.label \notin labels)

remove_close_events(df, n, u) ==
    Drop(df, MarkAll(df, 1, get_timedelta(n, u), <<>>))

\* Midpoints are multiples of the unit: the table of the events at the given
\* offsets, labelled 0, 1, ... as by compute_middle_event
MidOffsets == (0..MaxMid) \cup {100}
Gaps == (0..MaxGap) \cup {10}
EventsTable(offsets, u) ==
    [i \in 1..Len(offsets) |->
        [label |-> i - 1, middle_event |-> get_timedelta(offsets[i], u)]]

InitEv ==
    /\ pc = "start"
    /\ raised = "none"
    /\ unit \in TimeUnits
    /\ \E offsets \in UNION { [1..m -> MidOffsets] : m \in 0..MaxEv } :
          events_df = EventsTable(offsets, unit)
    /\ delta_unit_time \in Gaps
    /\ events_out = <<>>
    /\ IdleWin /\ IdleOp /\ IdleTU /\ IdleTr /\ IdleMM /\ IdleUT /\ IdleME /\ IdleBS /\ IdleFF /\ IdleId

RemoveCloseEvents ==
    /\ pc = "start"
    /\ events_out' = remove_close_events(events_df, delta_unit_time, unit)
    /\ pc' = "done"
    /\ UNCHANGED <<raised, winVars, opVars, events_df, delta_unit_time, unit,
                   tuVars, idVars, ffVars, bsVars, meVars, utVars, mmVars, trVars>>

\* The radius taken as the whole window
Radius_WholeWindow(w_s, u) == get_timedelta(w_s, u)

\* The radius as half the window rounded up
Radius_RoundedUp(w_s, u) == get_timedelta((w_s + 1) \div 2, u)

\* radius = get_timedelta(delta_unit_time=w_s // 2, unit=unit)
Radius(w_s, u) == get_timedelta(w_s \div 2, u)

\* convert_events_to_intervals(events_df, w_s, unit)
convert_events_to_intervals(df, w_s, u) ==
    [i \in 1..Len(df) |->
        LET mid_time == df[i].middle_event
            radius == Radius(w_s, u)
        IN Interval(TdSub(mid_time, radius), TdAdd(mid_time, radius))]

\* intervals = convert_events_to_intervals(self.events, self.w_s, ...), on
\* the events remove_close_events has kept and with the same w_s
ConvertEventsToIntervals ==
    /\ pc = "done"
    /\ events_as_intervals' =
          convert_events_to_intervals(events_out, delta_unit_time, unit)
    /\ pc' = "converted"
    /\ UNCHANGED <<raised, winVars, starting_event_index, op_values, widx,
                   op_x, evVars, tuVars, idVars, ffVars, bsVars, meVars, utVars, mmVars, trVars>>

NextEv == RemoveCloseEvents \/ ConvertEventsToIntervals

SpecEv == InitEv /\ [][NextEv]_vars

EventsSorted ==
    \A i \in 1..Len(events_df) : \A j \in i..Len(events_df) :
        TdLE(events_df[i].middle_event, events_df[j].middle_event)

Retained(row) == \E k \in 1..Len(events_out) : events_out[k] = row

\* The minimum gap as a duration of whole units
MinimumGap == get_timedelta(delta_unit_time, unit)

\* Distance in time between two rows, later minus earlier
Apart(a, b) ==
    IF TdLE(a.middle_event, b.middle_event)
    THEN TdSub(b.middle_event, a.middle_event)
    ELSE TdSub(a.middle_event, b.middle_event)

C6_ExactGapRetained ==
    (pc = "done" /\ EventsSorted /\ delta_unit_time >= 1) =>
        /\ \A j \in 1..Len(events_df) :
              ~Retained(events_df[j]) =>
                  \E i \in 1..(j - 1) :
                      /\ Retained(events_df[i])
                      /\ TdLT(Apart(events_df[i], events_df[j]), MinimumGap)
        /\ \A j \in 2..Len(events_df) :
              (Retained(events_df[j - 1])
                 /\ Apart(events_df[j - 1], events_df[j]) = MinimumGap) =>
                  Retained(events_df[j])

-----------------------------------------------------------------------------
(* check_time_unit(): helpers.py *)

\* Whole seconds of diff.total_seconds(); the rest is diff.microseconds
WholeSeconds(d) == d.days * 86400 + d.seconds

\* diff.total_seconds() > n, for a whole number n of seconds
TotalSecondsGT(d, n) ==
    WholeSeconds(d) > n \/ (WholeSeconds(d) = n /\ d.microseconds > 0)

\* diff.total_seconds() * 1000 > 1 and diff.total_seconds() * 1000000 > 1;
\* both are evaluated only when total_seconds() <= 1
TotalMicroseconds(d) == WholeSeconds(d) * 1000000 + d.microseconds
TotalMillisGT1(d) == WholeSeconds(d) >= 0 /\ TotalMicroseconds(d) > 1000
TotalMicrosGT1(d) == WholeSeconds(d) >= 0 /\ TotalMicroseconds(d) > 1

check_time_unit(d) ==
    IF TotalSecondsGT(d, 31536000)
    THEN [raised |-> "none", value |-> <<WholeSeconds(d) \div 31536000, "YEAR">>]
    ELSE IF TotalSecondsGT(d, 86400)
    THEN [raised |-> "none", value |-> <<WholeSeconds(d) \div 86400, "DAY">>]
    ELSE IF TotalSecondsGT(d, 3600)
    THEN [raised |-> "none", value |-> <<WholeSeconds(d) \div 3600, "HOUR">>]
    ELSE IF TotalSecondsGT(d, 60)
    THEN [raised |-> "none", value |-> <<WholeSeconds(d) \div 60, "MINUTE">>]
    ELSE IF TotalSecondsGT(d, 1)
    THEN [raised |-> "none", value |-> <<WholeSeconds(d), "SECOND">>]
    ELSE IF TotalMillisGT1(d)
    THEN [raised |-> "none",
          value |-> <<TotalMicroseconds(d) \div 1000, "MILLISECOND">>]
    ELSE IF TotalMicrosGT1(d)
    THEN [raised |-> "none", value |-> <<TotalMicroseconds(d), "MICROSECOND">>]
    ELSE [raised |-> "ValueError", value |-> <<>>]

ZeroDuration == timedelta(0, 0, 0)

\* Durations around the whole multiples of every unit, and their negatives
Durations ==
    LET pos == { TdAdd(get_timedelta(k, u), timedelta(0, 0, e)) :
                    <<k, u, e>> \in (0..MaxMag) \X TimeUnits \X {-1, 0, 1} }
    IN pos \cup { TdSub(ZeroDuration, d) : d \in pos }

InitTU ==
    /\ pc = "start"
    /\ raised = "none"
    /\ diff \in Durations
    /\ tu_result = <<>>
    /\ IdleWin /\ IdleOp /\ IdleEv /\ IdleTr /\ IdleMM /\ IdleUT /\ IdleME /\ IdleBS /\ IdleFF /\ IdleId

CheckTimeUnit ==
    /\ pc = "start"
    /\ LET r == check_time_unit(diff)
       IN raised' = r.raised /\ tu_result' = r.value
    /\ pc' = "done"
    /\ UNCHANGED <<winVars, opVars, evVars, diff, trVars, idVars, ffVars, bsVars, meVars, utVars, mmVars>>

NextTU == CheckTimeUnit

SpecTU == InitTU /\ [][NextTU]_vars

\* Units from the coarsest to the finest
UnitRank(u) ==
    CASE u = "YEAR" -> 1 [] u = "DAY" -> 2 [] u = "HOUR" -> 3
      [] u = "MINUTE" -> 4 [] u = "SECOND" -> 5 [] u = "MILLISECOND" -> 6
      [] u = "MICROSECOND" -> 7

\* trunc(d / length(u)) >= 1, i.e. d lasts at least one unit u
AtLeastOne(d, u) == TdLE(get_timedelta(1, u), d)

\* C7: for a strictly positive duration the result is (m, u) with u the
\* coarsest unit of which the duration holds at least one, and m the
\* truncated number of units u in the duration.
C7_CoarsestUnit ==
    (pc = "done" /\ TdLT(ZeroDuration, diff)) =>
        /\ raised = "none"
        /\ Len(tu_result) = 2
        /\ tu_result[2] \in TimeUnits
        /\ AtLeastOne(diff, tu_result[2])
        /\ \A u \in TimeUnits :
              UnitRank(u) < UnitRank(tu_result[2]) => ~AtLeastOne(diff, u)
        /\ TdLE(get_timedelta(tu_result[1], tu_result[2]), diff)
        /\ TdLT(diff, get_timedelta(tu_result[1] + 1, tu_result[2]))

\* C8: the undetermined-unit error is raised exactly for durations that are
\* zero or negative; a duration of at least one microsecond gives a result
\* of magnitude >= 1.
C8_ErrorIffNonPositive ==
    pc = "done" =>
        /\ raised = "ValueError" <=> TdLE(diff, ZeroDuration)
        /\ TdLT(ZeroDuration, diff) =>
              (raised = "none" /\ Len(tu_result) = 2 /\ tu_result[1] >= 1)

-----------------------------------------------------------------------------
(* ModelTrainer.fitting_models(): models_trainer.py *)

ModelNames == {"A", "B", "C"}
NameOrder == <<"A", "B", "C">>

\* The keys of a dict, as a sequence (iteration order)
Keys(dict) == SelectSeq(NameOrder, LAMBDA m : m \in DOMAIN dict)

\* Test losses in units of 0.0001: 0.1000, 0.1001, 0.1002, 0.1003
LossVals == {1000, 1001, 1002, 1003}
\* epsilon in the same units: 0 and the default 0.0002
EpsilonVals == {0, 2}

\* np.Inf, and the loop "if min_loss > loss: min_loss = loss"
Inf == [inf |-> TRUE, v |-> 0]
RECURSIVE MinLoss(_, _, _)
MinLoss(names, ls, min_loss) ==
    IF names = <<>> THEN min_loss
    ELSE LET loss == ls[Head(names)] IN
         MinLoss(Tail(names), ls,
                 IF min_loss.inf \/ min_loss.v > loss
                 THEN [inf |-> FALSE, v |-> loss] ELSE min_loss)

\* "if loss_ < (min_loss + self.epsilon)" in place of "<="
InBand_Strict(loss_, min_loss, eps) ==
    min_loss.inf \/ loss_ < min_loss.v + eps

\* "if loss_ <= (min_loss + self.epsilon)"
InBand(loss_, min_loss, eps) ==
    min_loss.inf \/ loss_ <= min_loss.v + eps

\* The loop storing a selected model in a new dict in place of the old one
RECURSIVE SelectBest_Replace(_, _, _, _, _, _)
SelectBest_Replace(names, ls, min_loss, eps, created, best) ==
    IF names = <<>> THEN best
    ELSE LET m == Head(names)
             rest == Tail(names)
         IN IF InBand(ls[m], min_loss, eps)
            THEN SelectBest_Replace(rest, ls, min_loss, eps, created,
                    [k \in {m} |-> created[m]])
            ELSE SelectBest_Replace(rest, ls, min_loss, eps, created, best)

\* The loop that fills self.best_models
RECURSIVE SelectBest(_, _, _, _, _, _)
SelectBest(names, ls, min_loss, eps, created, best) ==
    IF names = <<>> THEN best
    ELSE LET m == Head(names)
             rest == Tail(names)
         IN IF InBand(ls[m], min_loss, eps)
            THEN SelectBest(rest, ls, min_loss, eps, created,
                    [k \in (DOMAIN best) \cup {m} |->
                        IF k = m THEN created[m] ELSE best[k]])
            ELSE SelectBest(rest, ls, min_loss, eps, created, best)

\* A trainer as ModelTrainer.__init__ leaves it
InitFit ==
    /\ pc = "trainer"
    /\ raised = "none"
    /\ best_models = << >>
    /\ created_models = << >>
    /\ losses = << >>
    /\ epsilon \in EpsilonVals
    /\ calls = 0
    /\ test_y = <<>> /\ predictions = << >> /\ meta_result = <<>>
    /\ type_training = "average" /\ test_size = [n |-> 1, d |-> 5]
    /\ saved_models = {}
    /\ meta_fit = <<>>
    /\ IdleWin /\ IdleOp /\ IdleEv /\ IdleTU /\ IdleMM /\ IdleUT /\ IdleME /\ IdleBS /\ IdleFF /\ IdleId

\* fitting_models(created_models): the models are new objects (tagged with
\* the number of the call); fitting and evaluation give any finite losses
FittingModels ==
    /\ pc = "trainer"
    /\ calls < MaxCalls
    /\ \E names \in SUBSET ModelNames : \E ls \in [names -> LossVals] :
          LET created == [m \in names |-> calls + 1]
              min_loss == MinLoss(Keys(created), ls, Inf)
          IN /\ created_models' = created
             /\ losses' = ls
             /\ best_models' = SelectBest(Keys(created), ls, min_loss,
                                          epsilon, created, best_models)
    /\ calls' = calls + 1
    /\ UNCHANGED <<pc, raised, winVars, opVars, evVars, tuVars, idVars, ffVars, bsVars, meVars, utVars, mmVars, epsilon, test_y,
                   predictions, meta_result, type_training, test_size,
                   saved_models, meta_fit>>

NextFit == FittingModels

SpecFit == InitFit /\ [][NextFit]_vars

\* The models the last call put into best_models
Selected ==
    { m \in DOMAIN created_models :
        m \in DOMAIN best_models /\ best_models[m] = created_models[m] }

\* C9: after fitting_models on a non-empty set of models, the models selected
\* are exactly those with test loss <= min_loss + epsilon, min_loss being the
\* smallest test loss; the selection is non-empty, holds every model of
\* minimum loss and only fitted models.
C9_EpsilonBand ==
    (calls >= 1 /\ DOMAIN created_models # {}) =>
        LET least == CHOOSE l \in { losses[m] : m \in DOMAIN created_models } :
                        \A m \in DOMAIN created_models : l <= losses[m]
        IN /\ Selected = { m \in DOMAIN created_models :
                              losses[m] <= least + epsilon }
           /\ Selected # {}
           /\ \A m \in DOMAIN created_models : losses[m] = least => m \in Selected
           /\ Selected \subseteq DOMAIN created_models

\* Losses {A: 0.10, B: 0.1003} with epsilon 0.0002 select {A}
C9_Witness ==
    /\ calls = 1 /\ epsilon = 2
    /\ DOMAIN created_models = {"A", "B"}
    /\ losses["A"] = 1000 /\ losses["B"] = 1003
    /\ Selected = {"A"}
    /\ DOMAIN best_models = {"A"}

\* Losses {A: 0.10, B: 0.1001} with epsilon 0.0002 select {A, B}
C9_WitnessBoth ==
    /\ calls = 1 /\ epsilon = 2
    /\ DOMAIN created_models = {"A", "B"}
    /\ losses["A"] = 1000 /\ losses["B"] = 1001
    /\ Selected = {"A", "B"}

-----------------------------------------------------------------------------
(* ModelTrainer.train_meta_model(): models_trainer.py *)

PredVals == {0, 1}
TrainingTypes == {"average", "mean", "ffn"}
TestSizes == {[n |-> 1, d |-> 5], [n |-> 1, d |-> 2]}

\* np.stack(predictions, axis=1): row i holds the i-th prediction of every
\* best model, one column per model
Stack(names, preds, n) ==
    [i \in 1..n |-> [c \in 1..Len(names) |-> preds[names[c]][i]]]

\* np.mean(x, axis=0): one mean per column (per model)
MeanAxis0(x) ==
    IF x = <<>> THEN <<>>
    ELSE [c \in 1..Len(x[1]) |->
            Frac(SumSeq([i \in 1..Len(x) |-> x[i][c]]), Len(x))]

\* np.mean(x, axis=1): one mean per row (per test sample)
MeanAxis1(x) == [i \in 1..Len(x) |-> Frac(SumSeq(x[i]), Len(x[i]))]

\* keras.losses.mse of a prediction against targets
FracSub(a, b) == Frac(a.n * b.d - b.n * a.d, a.d * b.d)
FracMul(a, b) == Frac(a.n * b.n, a.d * b.d)
RECURSIVE FracSum(_)
FracSum(s) == IF s = <<>> THEN FracZero ELSE FracAdd(Head(s), FracSum(Tail(s)))
mse(prediction, targets) ==
    LET n == Min2(Len(prediction), Len(targets))
        sq == [i \in 1..n |->
                 LET e == FracSub(prediction[i], Frac(targets[i], 1))
                 IN FracMul(e, e)]
    IN FracMul(FracSum(sq), Frac(1, n))

\* sklearn train_test_split(..., test_size=f, shuffle=False) on n samples:
\* the last ceil(f * n) samples are the test split
NTest(n, f) == (f.n * n + f.d - 1) \div f.d

\* The split with the test part taken from the head of the samples
train_test_split_TestFirst(x, y, f) ==
    LET n == Len(y)
        n_test == NTest(n, f)
    IN [raised |-> n - n_test = 0,
        train_x |-> SubSeq(x, n_test + 1, n),
        test_x |-> SubSeq(x, 1, n_test),
        train_y |-> SubSeq(y, n_test + 1, n),
        test_y |-> SubSeq(y, 1, n_test)]

\* train_test_split(x, y, test_size=f, shuffle=False): the first
\* n - n_test samples are the train part and the rest the test part; an
\* empty train part raises ValueError
train_test_split(x, y, f) ==
    LET n == Len(y)
        n_test == NTest(n, f)
        n_train == n - n_test
    IN [raised |-> n_train = 0,
        train_x |-> SubSeq(x, 1, n_train),
        test_x |-> SubSeq(x, n_train + 1, n),
        train_y |-> SubSeq(y, 1, n_train),
        test_y |-> SubSeq(y, n_train + 1, n)]

\* The averaging branch taking np.mean(x, axis=0)
AverageResult_Axis0(x, targets) ==
    LET final_prediction == MeanAxis0(x)
    IN [final_prediction |-> final_prediction,
        loss |-> mse(final_prediction, targets),
        test_y |-> targets]

\* The averaging branch
AverageResult(x, targets) ==
    LET final_prediction == MeanAxis1(x)
    IN [final_prediction |-> final_prediction,
        loss |-> mse(final_prediction, targets),
        test_y |-> targets]

MaxLayers == 2      \* largest max_layers of hyperparams_ffn
MaxUnits == 2       \* largest unit count of hyperparams_ffn

\* sorted(units, reverse=True)
SortedReverse(units) ==
    LET s == SortValues(units)
    IN [j \in 1..Len(s) |-> s[Len(s) + 1 - j]]

\* [np.random.randint(min_units, max_units + 1) for _ in range(max_layers)]:
\* the lists that can be drawn; randint raises ValueError on an empty range
RandintRaises(hp) == hp[1] >= 1 /\ hp[2] > hp[3]
UnitDraws(hp) == [1..hp[1] -> hp[2]..hp[3]]

\* ModelBuilder.add_dense_layer(units, dropout): one more dense layer; a
\* call without dropout takes the builder's default
add_dense_layer(layers, units, dropout) ==
    Append(layers, [units |-> units, dropout |-> dropout])

\* for j in range(max_layers): model_builder.add_dense_layer(units=units[j])
RECURSIVE AddHiddenLayers(_, _)
AddHiddenLayers(layers, units) ==
    IF units = <<>> THEN layers
    ELSE AddHiddenLayers(add_dense_layer(layers, Head(units), "default"),
                         Tail(units))

\* The layers of the meta-model for one drawn list of units, ending with
\* model_builder.add_dense_layer(units=1, dropout=None)
MetaNetwork(drawn) ==
    add_dense_layer(AddHiddenLayers(<<>>, SortedReverse(drawn)), 1, None)

\* Every network train_meta_model can build for the hyperparameters
MetaNetworks(hp) == { MetaNetwork(drawn) : drawn \in UnitDraws(hp) }

\* A trainer whose best_models were chosen by fitting_models, and the test
\* targets of its data splitter
InitMeta ==
    /\ pc = "trainer"
    /\ raised = "none"
    /\ \E names \in SUBSET ModelNames : best_models = [m \in names |-> 1]
    /\ created_models = << >>
    /\ losses = << >>
    /\ epsilon \in EpsilonVals
    /\ calls = 1
    /\ \E n \in 1..MaxTest : test_y \in [1..n -> PredVals]
    /\ predictions = << >>
    /\ meta_result = <<>>
    /\ type_training \in TrainingTypes
    /\ test_size \in TestSizes
    /\ saved_models = {}
    /\ meta_fit = <<>>
    /\ IdleWin /\ IdleOp /\ IdleEv /\ IdleTU /\ IdleMM /\ IdleUT /\ IdleME /\ IdleBS /\ IdleFF /\ IdleId

\* train_meta_model(): np.stack raises ValueError on an empty list
TrainMetaModelNoModels ==
    /\ pc = "trainer"
    /\ DOMAIN best_models = {}
    /\ raised' = "ValueError"
    /\ pc' = "done"
    /\ UNCHANGED <<winVars, opVars, evVars, tuVars, idVars, ffVars, bsVars, meVars, utVars, mmVars, trVars>>

\* train_meta_model(), averaging mode
TrainMetaModelAverage ==
    /\ pc = "trainer"
    /\ DOMAIN best_models # {}
    /\ type_training # "ffn"
    /\ \E preds \in [DOMAIN best_models -> [1..Len(test_y) -> PredVals]] :
          /\ predictions' = preds
          /\ meta_result' = AverageResult(Stack(Keys(best_models), preds,
                                                Len(test_y)), test_y)
    /\ pc' = "done"
    /\ UNCHANGED <<raised, winVars, opVars, evVars, tuVars, idVars, ffVars, bsVars, meVars, utVars, mmVars, best_models,
                   created_models, losses, epsilon, calls, test_y,
                   type_training, test_size, saved_models, meta_fit>>

\* train_meta_model(), "ffn" mode, up to keras_model.fit: the stacked
\* predictions and the targets are split in order and the network is fitted
\* on the first part, with the second part as validation data
TrainMetaModelFFNFit ==
    /\ pc = "trainer"
    /\ DOMAIN best_models # {}
    /\ type_training = "ffn"
    /\ \E preds \in [DOMAIN best_models -> [1..Len(test_y) -> PredVals]] :
         LET x == Stack(Keys(best_models), preds, Len(test_y))
             split == train_test_split(x, test_y, test_size)
         IN /\ predictions' = preds
            /\ IF split.raised \/ RandintRaises(hyperparams_ffn)
               THEN /\ raised' = "ValueError"
                    /\ pc' = "done"
                    /\ UNCHANGED <<meta_fit, meta_layers>>
               ELSE /\ meta_layers' \in MetaNetworks(hyperparams_ffn)
                    /\ meta_fit' = [fit_x |-> split.train_x,
                                    fit_y |-> split.train_y,
                                    validation_x |-> split.test_x,
                                    validation_y |-> split.test_y,
                                    predict_x |-> <<>>]
                    /\ pc' = "ffn_fitted"
                    /\ UNCHANGED raised
    /\ UNCHANGED <<winVars, opVars, evVars, tuVars, idVars, hyperparams_ffn, bsVars, meVars, utVars, mmVars, best_models,
                   created_models, losses, epsilon, calls, test_y,
                   type_training, test_size, meta_result, saved_models>>

\* keras_model.save(MODELS_DIR/meta_model_ffn)
TrainMetaModelFFNSave ==
    /\ pc = "ffn_fitted"
    /\ saved_models' = saved_models \cup {"meta_model_ffn"}
    /\ pc' = "ffn_saved"
    /\ UNCHANGED <<raised, winVars, opVars, evVars, tuVars, idVars, ffVars, bsVars, meVars, utVars, mmVars, best_models,
                   created_models, losses, epsilon, calls, test_y,
                   predictions, type_training, test_size, meta_result,
                   meta_fit>>

\* keras_model.predict(test_x) flattened (one output unit: one value per
\* row of test_x), and the value returned
TrainMetaModelFFNReturn ==
    /\ pc = "ffn_saved"
    /\ LET x == Stack(Keys(best_models), predictions, Len(test_y))
           split == train_test_split(x, test_y, test_size)
       IN \E out \in [1..Len(split.test_x) -> PredVals] :
            LET final_prediction ==
                    [i \in 1..Len(split.test_x) |-> Frac(out[i], 1)]
            IN /\ meta_fit' = [meta_fit EXCEPT !.predict_x = split.test_x]
               /\ meta_result' = [final_prediction |-> final_prediction,
                                  loss |-> mse(final_prediction, split.test_y),
                                  test_y |-> split.test_y]
    /\ pc' = "done"
    /\ UNCHANGED <<raised, winVars, opVars, evVars, tuVars, idVars, ffVars, bsVars, meVars, utVars, mmVars, best_models,
                   created_models, losses, epsilon, calls, test_y,
                   predictions, type_training, test_size, saved_models>>

NextMeta ==
    \/ TrainMetaModelNoModels
    \/ TrainMetaModelAverage
    \/ TrainMetaModelFFNFit
    \/ TrainMetaModelFFNSave
    \/ TrainMetaModelFFNReturn

SpecMeta == InitMeta /\ [][NextMeta]_vars

\* Sum of the i-th predictions of the given models
RECURSIVE SumOfPredictions(_, _)
SumOfPredictions(names, i) ==
    IF names = {} THEN 0
    ELSE LET m == CHOOSE k \in names : TRUE
         IN predictions[m][i] + SumOfPredictions(names \ {m}, i)

\* C10: in averaging mode the final prediction has one entry per test sample,
\* its i-th entry is the arithmetic mean of the i-th predictions of all best
\* models, and it is returned with the original test targets, against which
\* the loss is computed.
C10_AveragingMode ==
    (pc = "done" /\ type_training # "ffn" /\ raised = "none") =>
        /\ Len(meta_result.final_prediction) = Len(test_y)
        /\ \A i \in 1..Len(test_y) :
              meta_result.final_prediction[i].n * Cardinality(DOMAIN best_models)
                = meta_result.final_prediction[i].d
                    * SumOfPredictions(DOMAIN best_models, i)
        /\ meta_result.test_y = test_y
        /\ meta_result.loss = mse(meta_result.final_prediction, test_y)

\* Two models predicting (0, 1) and (1, 1) average to (1/2, 1)
C10_Witness ==
    /\ pc = "done" /\ type_training # "ffn" /\ raised = "none"
    /\ DOMAIN best_models = {"A", "B"}
    /\ predictions["A"] = <<0, 1>> /\ predictions["B"] = <<1, 1>>
    /\ meta_result.final_prediction = <<Frac(1, 2), FracOne>>
    /\ meta_result.test_y = test_y


\* k is the number of samples in the last fraction f of n samples:
\* the least whole number of samples that is at least f * n
LastFraction(k, n, f) == k * f.d >= f.n * n /\ (k - 1) * f.d < f.n * n

\* C11: in "ffn" mode the stacked predictions and the test targets are split
\* in order, the last test_size fraction being the secondary test split; the
\* returned prediction and the returned targets cover exactly the rows of
\* that split, the network was fitted only on the rows before it, and
\* meta_model_ffn was saved before the result was returned
C11_FFNSecondarySplit ==
    (type_training = "ffn" /\ meta_result # <<>>) =>
        LET n == Len(test_y)
            x == Stack(Keys(best_models), predictions, n)
            k == Len(meta_result.test_y)
        IN /\ LastFraction(k, n, test_size)
           /\ meta_result.test_y = SubSeq(test_y, n - k + 1, n)
           /\ Len(meta_result.final_prediction) = k
           /\ meta_fit.predict_x = SubSeq(x, n - k + 1, n)
           /\ meta_fit.fit_x = SubSeq(x, 1, n - k)
           /\ meta_fit.fit_y = SubSeq(test_y, 1, n - k)
           /\ "meta_model_ffn" \in saved_models

\* An "ffn" run has returned, with targets that tell the head of the test
\* set from its tail
C11_Witness ==
    /\ type_training = "ffn"
    /\ pc = "done"
    /\ meta_result # <<>>
    /\ Len(test_y) >= 2
    /\ test_y[1] # test_y[Len(test_y)]
    /\ Cardinality(DOMAIN best_models) >= 2

-----------------------------------------------------------------------------
(* MetaModel.__init__: meta_model.py.  A path is the sequence of its       *)
(* components; the files of a directory carry the number of the run that   *)
(* wrote them (0: before the first run).                                   *)

MaxRuns == 2

DatetimeFormatError == "TypeError: The index should be in datetime format."

\* Index entries: timestamps (t seconds after the epoch), numbers, strings
Timestamp(t) == [kind |-> "Timestamp", t |-> t]
IndexEntries(kind) ==
    IF kind = "Timestamp" THEN {Timestamp(0), Timestamp(2)}
    ELSE {[kind |-> kind, t |-> 0]}
Indexes ==
    UNION { UNION { [1..n -> IndexEntries(kind)] : n \in 0..2 } :
              kind \in {"Timestamp", "int", "str"} }

\* b - a for two index entries: a timedelta for timestamps, a number for
\* numbers, TypeError for strings
Subtract(b, a) ==
    IF a.kind = "Timestamp" /\ b.kind = "Timestamp"
    THEN [raised |-> "none",
          value |-> [kind |-> "timedelta",
                     d |-> TdSub(timedelta(0, b.t, 0), timedelta(0, a.t, 0))]]
    ELSE IF a.kind = "int" /\ b.kind = "int"
    THEN [raised |-> "none", value |-> [kind |-> "int", d |-> b.t - a.t]]
    ELSE [raised |-> "TypeError: unsupported operand type(s) for -",
          value |-> <<>>]

\* The handler of the try block without the conversion
ExceptAttributeError_Reraise(e) == e

\* except AttributeError: raise TypeError(...); other exceptions propagate
ExceptAttributeError(e) ==
    IF e = "AttributeError" THEN DatetimeFormatError ELSE e

\* The try block of __compute_and_set_time_sampling
TimeSamplingTry(index, w, s) ==
    IF Len(index) < 2
    THEN [raised |-> "IndexError", value |-> <<>>]
    ELSE LET df == Subtract(index[2], index[1])
         IN IF df.raised # "none"
            THEN [raised |-> df.raised, value |-> <<>>]
            ELSE IF df.value.kind # "timedelta"
            THEN [raised |-> "AttributeError", value |-> <<>>]
            ELSE LET r == check_time_unit(df.value.d)
                 IN IF r.raised # "none"
                    THEN [raised |-> r.raised, value |-> <<>>]
                    ELSE [raised |-> "none",
                          value |-> <<r.value[1], r.value[2],
                                      r.value[1] * w, r.value[1] * s>>]

compute_and_set_time_sampling(index, w, s) ==
    LET r == TimeSamplingTry(index, w, s)
    IN [raised |-> ExceptAttributeError(r.raised), value |-> r.value]

\* validate_args(meta_model): fails with InvalidArgument on any violation
validate_args(valid) ==
    IF valid THEN "none" ELSE "InvalidArgument"

\* os.path.abspath(os.path.join(path, os.pardir))
Parent(path) ==
    IF path = <<>> THEN <<>> ELSE SubSeq(path, 1, Len(path) - 1)

\* os.path.join(current_directory, output_dir)
Join(current_directory, name) ==
    IF name.abs THEN name.parts ELSE current_directory \o name.parts

\* working_dir of __create_output_dir
WorkingDir(current, name) == Join(Parent(Parent(Parent(current))), name)

\* path is directory or lies below it
Below(path, directory) ==
    /\ Len(path) >= Len(directory)
    /\ SubSeq(path, 1, Len(directory)) = directory

\* os.makedirs without the shutil.rmtree before it
RemoveAndMake_KeepFiles(disk, working_dir) ==
    [p \in DOMAIN disk \cup {working_dir} |->
        IF p \in DOMAIN disk THEN disk[p] ELSE {}]

\* shutil.rmtree(working_dir) when it exists, then os.makedirs(working_dir)
RemoveAndMake(disk, working_dir) ==
    [p \in { q \in DOMAIN disk : ~Below(q, working_dir) } \cup {working_dir} |->
        IF p = working_dir THEN {} ELSE disk[p]]

\* The calls of __init__ after the fields are set, in order
CtorOrder_DirBeforeValidation ==
    <<"time_sampling", "set_defaults", "create_output_dir", "validate_args",
      "components">>

CtorOrder ==
    <<"time_sampling", "set_defaults", "validate_args", "create_output_dir",
      "components">>

NextCtorStep == CtorOrder[Len(mm_done) + 1]

Locations == {<<"home", "pkg", "a", "b">>, <<"srv", "pkg", "a", "b">>}
OutputDirArgs ==
    {[abs |-> FALSE, parts |-> <<"out">>],
     [abs |-> TRUE, parts |-> <<"home", "out">>]}
OutputDirs == { WorkingDir(l, a) : l \in Locations, a \in OutputDirArgs }
File(r, name) == [run |-> r, name |-> name]

\* The directories on disk before the first run: each possible output
\* directory is absent, empty or holds a file of an earlier program
Disks ==
    UNION { [ds -> {{}, {File(0, "scaler")}}] : ds \in SUBSET OutputDirs }

InitMM ==
    /\ pc = "ctor"
    /\ raised = "none"
    /\ mm_index \in Indexes
    /\ args_valid \in BOOLEAN
    /\ cwd \in Locations
    /\ output_dir_arg \in OutputDirArgs
    /\ output_dir = output_dir_arg
    /\ fs \in Disks
    /\ warned = FALSE
    /\ mm_done = <<>>
    /\ run = 1
    /\ time_sampling = <<>>
    /\ dataset = [index |-> <<>>, columns |-> <<>>, rows |-> <<>>]
    /\ width = 2 /\ step = 1 /\ sw = <<>> /\ fill_method = "None"
    /\ IdleOp /\ IdleEv /\ IdleTU /\ IdleTr /\ IdleUT /\ IdleME /\ IdleBS /\ IdleFF /\ IdleId

\* self.__compute_and_set_time_sampling()
CtorTimeSampling ==
    /\ pc = "ctor"
    /\ NextCtorStep = "time_sampling"
    /\ LET r == compute_and_set_time_sampling(mm_index, width, step)
       IN IF r.raised # "none"
          THEN /\ raised' = r.raised
               /\ pc' = "failed"
               /\ UNCHANGED <<time_sampling, mm_done>>
          ELSE /\ time_sampling' = r.value
               /\ mm_done' = Append(mm_done, "time_sampling")
               /\ UNCHANGED <<pc, raised>>
    /\ UNCHANGED <<winVars, opVars, evVars, tuVars, idVars, ffVars, bsVars, meVars, utVars, trVars, mm_index,
                   args_valid, cwd, output_dir_arg, output_dir, fs, warned,
                   run>>

\* self.__set_defaults(): configuration keys only
CtorSetDefaults ==
    /\ pc = "ctor"
    /\ NextCtorStep = "set_defaults"
    /\ mm_done' = Append(mm_done, "set_defaults")
    /\ UNCHANGED <<pc, raised, winVars, opVars, evVars, tuVars, idVars, ffVars, bsVars, meVars, utVars, trVars,
                   mm_index, args_valid, cwd, output_dir_arg, output_dir, fs,
                   warned, run, time_sampling>>

\* validate_args(self)
CtorValidateArgs ==
    /\ pc = "ctor"
    /\ NextCtorStep = "validate_args"
    /\ IF validate_args(args_valid) # "none"
       THEN /\ raised' = validate_args(args_valid)
            /\ pc' = "failed"
            /\ UNCHANGED mm_done
       ELSE /\ mm_done' = Append(mm_done, "validate_args")
            /\ UNCHANGED <<pc, raised>>
    /\ UNCHANGED <<winVars, opVars, evVars, tuVars, idVars, ffVars, bsVars, meVars, utVars, trVars, mm_index,
                   args_valid, cwd, output_dir_arg, output_dir, fs, warned,
                   run, time_sampling>>

\* self.__create_output_dir()
CtorCreateOutputDir ==
    /\ pc = "ctor"
    /\ NextCtorStep = "create_output_dir"
    /\ LET working_dir == WorkingDir(cwd, output_dir)
       IN /\ warned' = (working_dir \in DOMAIN fs)
          /\ fs' = RemoveAndMake(fs, working_dir)
          /\ output_dir' = [abs |-> TRUE, parts |-> working_dir]
    /\ mm_done' = Append(mm_done, "create_output_dir")
    /\ UNCHANGED <<pc, raised, winVars, opVars, evVars, tuVars, idVars, ffVars, bsVars, meVars, utVars, trVars,
                   mm_index, args_valid, cwd, output_dir_arg, run,
                   time_sampling>>

\* ModelCreator, DataSplitter, ModelTrainer, OptimizationData, Plotter
CtorComponents ==
    /\ pc = "ctor"
    /\ NextCtorStep = "components"
    /\ mm_done' = Append(mm_done, "components")
    /\ pc' = "constructed"
    /\ UNCHANGED <<raised, winVars, opVars, evVars, tuVars, idVars, ffVars, bsVars, meVars, utVars, trVars,
                   mm_index, args_valid, cwd, output_dir_arg, output_dir, fs,
                   warned, run, time_sampling>>

\* A later operation of the constructed MetaModel writes a file under
\* output_dir (data_splitter.save_scalers)
SaveScalers ==
    /\ pc = "constructed"
    /\ File(run, "scaler") \notin fs[output_dir.parts]
    /\ fs' = [fs EXCEPT ![output_dir.parts] = @ \cup {File(run, "scaler")}]
    /\ UNCHANGED <<pc, raised, winVars, opVars, evVars, tuVars, idVars, ffVars, bsVars, meVars, utVars, trVars,
                   mm_index, args_valid, cwd, output_dir_arg, output_dir,
                   warned, mm_done, run, time_sampling>>

\* The program is run again: MetaModel(output_dir, dataset, events, ...)
\* with the same dataset and configuration, from some location
ConstructAgain ==
    /\ pc \in {"constructed", "failed"}
    /\ run < MaxRuns
    /\ run' = run + 1
    /\ pc' = "ctor"
    /\ raised' = "none"
    /\ cwd' \in Locations
    /\ output_dir_arg' \in OutputDirArgs
    /\ output_dir' = output_dir_arg'
    /\ warned' = FALSE
    /\ mm_done' = <<>>
    /\ time_sampling' = <<>>
    /\ UNCHANGED <<winVars, opVars, evVars, tuVars, idVars, ffVars, bsVars, meVars, utVars, trVars, mm_index,
                   args_valid, fs>>

NextMM ==
    \/ CtorTimeSampling
    \/ CtorSetDefaults
    \/ CtorValidateArgs
    \/ CtorCreateOutputDir
    \/ CtorComponents
    \/ SaveScalers
    \/ ConstructAgain

SpecMM == InitMM /\ [][NextMM]_vars

IsPrefix(s, t) == Len(s) <= Len(t) /\ SubSeq(t, 1, Len(s)) = s

ValidationPassed == \E i \in 1..Len(mm_done) : mm_done[i] = "validate_args"

\* C12: the steps of MetaModel construction complete in the order time-unit
\* inference, defaults, argument validation, output-directory creation,
\* component instantiation; and no step changes a directory on disk unless
\* argument validation has passed, so a construction that fails in time-unit
\* inference or in validation has created and deleted nothing
C12_ValidationBeforeDirectory ==
    /\ [](IsPrefix(mm_done, <<"time_sampling", "set_defaults", "validate_args",
                              "create_output_dir", "components">>))
    /\ [][~ValidationPassed' => fs' = fs]_vars

\* Validation failed while the resolved output directory, with an older
\* file in it, is still on disk
C12_Witness ==
    /\ pc = "failed"
    /\ raised = "InvalidArgument"
    /\ mm_done = <<"time_sampling", "set_defaults">>
    /\ WorkingDir(cwd, output_dir_arg) \in DOMAIN fs
    /\ fs[WorkingDir(cwd, output_dir_arg)] = {File(0, "scaler")}

\* The absolute path an output_dir argument stands for: itself when
\* absolute, else the name below the directory three levels above the
\* current directory
ResolvedOutputDir ==
    IF output_dir_arg.abs
    THEN output_dir_arg.parts
    ELSE SubSeq(cwd, 1, Max2(Len(cwd) - 3, 0)) \o output_dir_arg.parts

\* C13: once the output directory has been created it exists and is empty,
\* whatever it held before; after a successful construction output_dir is
\* the resolved absolute path and the directory holds only files written by
\* this run, also when an earlier run used the same directory
C13_FreshOutputDir ==
    /\ (mm_done # <<>> /\ Last(mm_done) = "create_output_dir") =>
          /\ output_dir.parts \in DOMAIN fs
          /\ fs[output_dir.parts] = {}
    /\ pc = "constructed" =>
          /\ output_dir.abs
          /\ output_dir.parts = ResolvedOutputDir
          /\ output_dir.parts \in DOMAIN fs
          /\ \A f \in fs[output_dir.parts] : f.run = run

\* The second construction found its output directory on disk, replaced
\* it, and the directory now holds the second run's file only
C13_Witness ==
    /\ run = 2
    /\ pc = "constructed"
    /\ warned
    /\ ~output_dir_arg.abs
    /\ fs[output_dir.parts] = {File(2, "scaler")}

NotTimestamps(index) ==
    \E i \in 1..Len(index) : index[i].kind # "Timestamp"

FirstTwoAre(index, kind) ==
    Len(index) >= 2 /\ index[1].kind = kind /\ index[2].kind = kind

FirstTwoNotIncreasing(index) ==
    FirstTwoAre(index, "Timestamp") /\ ~(index[1].t < index[2].t)

\* The first step of the construction has run
TimeSamplingAttempted == pc = "failed" \/ mm_done # <<>>

FailedInFirstStep(error) ==
    pc = "failed" /\ mm_done = <<>> /\ raised = error

TypeErrors ==
    {DatetimeFormatError, "TypeError: unsupported operand type(s) for -"}

\* C14 as stated, for a dataset of at least two rows: construction fails in
\* its first step with a type-mismatch error whenever the index entries are
\* not timestamps or the first two timestamps are not in increasing order
C14_Original ==
    (TimeSamplingAttempted /\ Len(mm_index) >= 2
       /\ (NotTimestamps(mm_index) \/ FirstTwoNotIncreasing(mm_index))) =>
        \E e \in TypeErrors : FailedInFirstStep(e)

\* C14 amended: construction fails in its first step in all these cases, but
\* with "The index should be in datetime format." only when the first two
\* entries are numbers; strings fail with the TypeError of the subtraction,
\* timestamps that are not in increasing order with the ValueError of
\* check_time_unit, and an index of fewer than two entries with IndexError
C14_IndexErrors ==
    TimeSamplingAttempted =>
        /\ FirstTwoAre(mm_index, "int") =>
              FailedInFirstStep(DatetimeFormatError)
        /\ FirstTwoAre(mm_index, "str") =>
              FailedInFirstStep("TypeError: unsupported operand type(s) for -")
        /\ FirstTwoNotIncreasing(mm_index) => FailedInFirstStep("ValueError")
        /\ Len(mm_index) < 2 => FailedInFirstStep("IndexError")

\* A numeric index was refused with the datetime-format error
C14_Witness ==
    /\ FirstTwoAre(mm_index, "int")
    /\ FailedInFirstStep(DatetimeFormatError)

-----------------------------------------------------------------------------
(* get_union_times_events() and get_dataset_within_events_times():         *)
(* helpers.py.  Times are ticks of the time unit, so that                  *)
(* get_timedelta(window_size, unit) is window_size ticks; a DatetimeIndex  *)
(* is the sequence of its values.                                          *)

MaxHalf == 2

\* pd.date_range(start, end, freq): start, start + freq, ... not beyond end;
\* a zero freq fails in the division by the stride
date_range(start, end, freq) ==
    IF freq = 0 THEN [raised |-> "ZeroDivisionError", value |-> <<>>]
    ELSE IF (end - start) * freq < 0 THEN [raised |-> "none", value |-> <<>>]
    ELSE [raised |-> "none",
          value |-> [i \in 1..((end - start) \div freq + 1) |->
                        start + (i - 1) * freq]]

\* The test in which a range touching the previous one counts as apart
RangesApart_Touching(previous_range, dates_between) ==
    Max2(previous_range[1], Last(previous_range))
        <= Min2(dates_between[1], Last(dates_between))

\* ranges_overlap of the source: true when the current range starts after
\* the previous one has ended
RangesApart(previous_range, dates_between) ==
    Max2(previous_range[1], Last(previous_range))
        < Min2(dates_between[1], Last(dates_between))

\* The loop of get_union_times_events from event i on; times is
\* times_during_events (previous_range is its last element)
RECURSIVE UnionLoop(_, _, _, _)
UnionLoop(evs, h, i, times) ==
    IF i > Len(evs) THEN [raised |-> "none", value |-> times]
    ELSE LET start_time == evs[i] - h
             end_time == evs[i] + h
             dates_between == date_range(start_time, end_time,
                                         end_time - start_time)
         IN IF dates_between.raised # "none"
            THEN [raised |-> dates_between.raised, value |-> <<>>]
            ELSE IF times = <<>>
            THEN UnionLoop(evs, h, i + 1, <<dates_between.value>>)
            ELSE IF ~RangesApart(Last(times), dates_between.value)
            THEN LET previous_range == Last(times)
                     merged_range ==
                         date_range(previous_range[1], Last(dates_between.value),
                                    Last(dates_between.value) - previous_range[1])
                 IN IF merged_range.raised # "none"
                    THEN [raised |-> merged_range.raised, value |-> <<>>]
                    ELSE UnionLoop(evs, h, i + 1,
                                   [times EXCEPT ![Len(times)] =
                                        merged_range.value])
            ELSE UnionLoop(evs, h, i + 1, Append(times, dates_between.value))

\* The values of a set of ticks in increasing order
RECURSIVE Sorted(_)
Sorted(S) ==
    IF S = {} THEN <<>>
    ELSE LET m == CHOOSE x \in S : \A y \in S : x <= y
         IN <<m>> \o Sorted(S \ {m})

\* x.union(y) of two indexes: the distinct values of both, in order
IndexUnion(x, y) ==
    Sorted({ x[i] : i \in 1..Len(x) } \cup { y[i] : i \in 1..Len(y) })

\* reduce(lambda x, y: x.union(y), ranges); an empty list raises TypeError
RECURSIVE Reduce(_, _)
Reduce(acc, ranges) ==
    IF ranges = <<>> THEN acc
    ELSE Reduce(IndexUnion(acc, Head(ranges)), Tail(ranges))

get_union_times_events(evs, window_size) ==
    LET r == UnionLoop(evs, window_size, 1, <<>>)
    IN IF r.raised # "none" THEN r
       ELSE IF r.value = <<>>
       THEN [raised |-> "TypeError", value |-> <<>>]
       ELSE [raised |-> "none",
             value |-> Reduce(Head(r.value), Tail(r.value))]

\* data_set.loc[start:end] on an increasing index: the rows from start to
\* end, both included
LocSlice(df, start, end) ==
    LET keep == { i \in 1..Len(df.index) :
                    start <= df.index[i] /\ df.index[i] <= end }
        order == Sorted(keep)
    IN [index |-> [k \in 1..Len(order) |-> df.index[order[k]]],
        columns |-> df.columns,
        rows |-> [k \in 1..Len(order) |-> df.rows[order[k]]]]

\* pd.concat of frames with the same columns
RECURSIVE ConcatFrames(_)
ConcatFrames(frames) ==
    IF Len(frames) = 1 THEN Head(frames)
    ELSE LET rest == ConcatFrames(Tail(frames))
         IN [index |-> Head(frames).index \o rest.index,
             columns |-> Head(frames).columns,
             rows |-> Head(frames).rows \o rest.rows]

\* The pairing that begins a pair at every position
PairStarts_Every(times) == 1..(Len(times) - 1)

\* range(0, len(events_times) - 1, 2), as positions of a sequence
PairStarts(times) == { i \in 1..(Len(times) - 1) : i % 2 = 1 }

get_dataset_within_events_times(data_set, times) ==
    LET starts == Sorted(PairStarts(times))
        frames == [k \in 1..Len(starts) |->
                     LocSlice(data_set, times[starts[k]],
                              times[starts[k] + 1])]
    IN IF frames = <<>>
       THEN [raised |-> "ValueError", value |-> <<>>]
       ELSE [raised |-> "none", value |-> ConcatFrames(frames)]

\* Event lists in any order, and datasets with a regular index whose
\* feature is the number of the row
UnionEvents == UNION { [1..n -> 0..MaxTime] : n \in 0..(MaxEvents + 1) }
UnionDatasets ==
    { Frame([i \in 1..n |-> t0 + (i - 1) * dt], [i \in 1..n |-> i]) :
        <<n, t0, dt>> \in (1..MaxRows) \X {0, 1} \X {1, 2} }

InitUT ==
    /\ pc = "union"
    /\ raised = "none"
    /\ ev_times \in UnionEvents
    /\ time_window \in 1..MaxHalf
    /\ events_times = <<>>
    /\ within = <<>>
    /\ dataset \in UnionDatasets
    /\ width = 0 /\ step = 0 /\ sw = <<>> /\ fill_method = "None"
    /\ IdleOp /\ IdleEv /\ IdleTU /\ IdleTr /\ IdleMM /\ IdleME /\ IdleBS /\ IdleFF /\ IdleId

\* events_times = get_union_times_events(self.events, self.time_window, ...)
GetUnionTimesEvents ==
    /\ pc = "union"
    /\ LET r == get_union_times_events(ev_times, time_window)
       IN /\ events_times' = r.value
          /\ raised' = r.raised
          /\ pc' = IF r.raised = "none" THEN "within" ELSE "done"
    /\ UNCHANGED <<winVars, opVars, evVars, tuVars, idVars, ffVars, bsVars, meVars, trVars, mmVars, ev_times,
                   time_window, within>>

\* self.dataset = get_dataset_within_events_times(self.dataset, events_times)
GetDatasetWithinEventsTimes ==
    /\ pc = "within"
    /\ LET r == get_dataset_within_events_times(dataset, events_times)
       IN /\ within' = r.value
          /\ raised' = r.raised
    /\ pc' = "done"
    /\ UNCHANGED <<winVars, opVars, evVars, tuVars, idVars, ffVars, bsVars, meVars, trVars, mmVars, ev_times,
                   time_window, events_times>>

NextUT == GetUnionTimesEvents \/ GetDatasetWithinEventsTimes

SpecUT == InitUT /\ [][NextUT]_vars

UnionEventsSorted ==
    \A i \in 1..(Len(ev_times) - 1) : ev_times[i] <= ev_times[i + 1]

\* Twice the time p lies in a range of the returned boundaries, taken in
\* pairs, resp. in [event - window_size, event + window_size] of an event
InReturnedRange(p) ==
    \E i \in 1..(Len(events_times) - 1) :
        /\ i % 2 = 1
        /\ 2 * events_times[i] <= p /\ p <= 2 * events_times[i + 1]
InEventRange(p) ==
    \E j \in 1..Len(ev_times) :
        /\ 2 * (ev_times[j] - time_window) <= p
        /\ p <= 2 * (ev_times[j] + time_window)

\* C15: for a non-empty sorted event list and a positive half-window the
\* boundaries returned are an even number of strictly increasing times
\* start_1 < end_1 < start_2 < ..., so that the ranges are disjoint and
\* neither overlap nor touch, and their union is the union of the
\* [event - h, event + h] (compared at every tick and half tick)
C15_UnionBoundaries ==
    (pc # "union" /\ ev_times # <<>> /\ UnionEventsSorted) =>
        /\ raised = "none"
        /\ Len(events_times) % 2 = 0
        /\ Len(events_times) >= 2
        /\ \A i \in 1..(Len(events_times) - 1) :
              events_times[i] < events_times[i + 1]
        /\ \A p \in (2 * (0 - MaxHalf) - 2)..(2 * (MaxTime + MaxHalf) + 2) :
              InReturnedRange(p) <=> InEventRange(p)

\* Three sorted events: the ranges of the first two overlap and are
\* coalesced, the third stays apart
C15_Witness ==
    /\ pc = "within"
    /\ ev_times = <<0, 1, 4>>
    /\ time_window = 1
    /\ events_times = <<-1, 2, 3, 5>>

\* The boundaries are an even number of strictly increasing times
CoveringRanges ==
    /\ Len(events_times) % 2 = 0
    /\ \A i \in 1..(Len(events_times) - 1) :
          events_times[i] < events_times[i + 1]

\* Row i of the dataset has its timestamp inside a covering range
InsideCoveringRange(i) ==
    \E k \in 1..(Len(events_times) \div 2) :
        /\ events_times[2 * k - 1] <= dataset.index[i]
        /\ dataset.index[i] <= events_times[2 * k]

\* C16: for boundaries forming covering ranges, the frame returned holds
\* exactly the dataset rows whose timestamp lies inside a covering range,
\* each once and in the order of the dataset, and no other row
C16_RowsWithinRanges ==
    (pc = "done" /\ raised = "none" /\ CoveringRanges) =>
        LET inside == Sorted({ i \in 1..Len(dataset.index) :
                                  InsideCoveringRange(i) })
        IN /\ within.columns = dataset.columns
           /\ within.index = [k \in 1..Len(inside) |-> dataset.index[inside[k]]]
           /\ within.rows = [k \in 1..Len(inside) |-> dataset.rows[inside[k]]]

\* Two ranges, [-1, 1] and [3, 5]: the row at tick 2 lies between them and
\* is left out
C16_Witness ==
    /\ pc = "done"
    /\ raised = "none"
    /\ events_times = <<-1, 1, 3, 5>>
    /\ dataset.index = <<0, 1, 2, 3>>
    /\ within.index = <<0, 1, 3>>
    /\ within.rows = <<<<1>>, <<2>>, <<4>>>>

-----------------------------------------------------------------------------
(* compute_middle_event(): helpers.py.  Dates are naive local wall-clock   *)
(* times in ticks of half an hour; a Unix timestamp is in the same ticks.  *)
(* datetime.timestamp() and datetime.fromtimestamp() go through the local  *)
(* time zone of the process.                                               *)

\* Two zones: a fixed offset, and one whose clocks are put forward by
\* DstJump ticks at wall-clock time DstStart
TimeZones == {"UTC", "DST"}
DstStart == 2
DstJump == 2

\* dt.timestamp() of a naive datetime: local time to Unix time; a wall-clock
\* time skipped by the clock change is read with the offset before it
timestamp(dt, zone) ==
    IF zone = "DST" /\ dt >= DstStart + DstJump THEN dt - DstJump ELSE dt

\* datetime.fromtimestamp(x): Unix time to local time
fromtimestamp(x, zone) ==
    IF zone = "DST" /\ x >= DstStart THEN x + DstJump ELSE x

\* convert_time_to_datetime(date) for a pd.Timestamp, to_timestamp=True
convert_time_to_datetime(date, zone) == timestamp(date, zone)

\* An events argument: a list (of rows that are lists, or of scalars) or a
\* DataFrame; rows holds the dates of each event
EventList(rows, nested) == [type |-> "list", nested |-> nested, rows |-> rows]
EventFrame(ncols, rows) ==
    [type |-> "DataFrame", ncols |-> ncols, rows |-> rows]

\* num_columns(lst)
num_columns(lst) ==
    IF lst.rows = <<>> THEN 0
    ELSE IF lst.nested THEN Len(lst.rows[1])
    ELSE 1

\* The middle date of one row of the frame
MiddleOfRow(row, is2d, zone) ==
    IF is2d
    THEN fromtimestamp(convert_time_to_datetime(row[1], zone) \div 2
                       + convert_time_to_datetime(row[2], zone) \div 2, zone)
    ELSE fromtimestamp(convert_time_to_datetime(row[1], zone), zone)

compute_middle_event(events, zone) ==
    LET nb_columns == IF events.type = "list" THEN num_columns(events)
                      ELSE IF events.type = "DataFrame" THEN events.ncols
                      ELSE 0
    IN IF events.type \notin {"list", "DataFrame"} \/ nb_columns \notin {1, 2}
       THEN [raised |-> "ValueError", value |-> <<>>]
       ELSE [raised |-> "none",
             value |-> [i \in 1..Len(events.rows) |->
                          MiddleOfRow(events.rows[i], nb_columns = 2, zone)]]

\* Dates on whole hours (even ticks), so that half a timestamp is a whole
\* number of ticks
WallTimes == { 2 * k : k \in 0..MaxTime }

\* n rows of ncols dates; the rows of a table that is refused hold the
\* date 0 only
EventRows(n, ncols) ==
    [1..n -> [1..ncols -> IF ncols \in {1, 2} THEN WallTimes ELSE {0}]]

\* The arguments built on the given rows: a list of lists, a DataFrame, a
\* list of scalars when the rows hold one date, and a tuple
MiddleEventInputs(ncols, rows) ==
    {EventList(rows, TRUE), EventFrame(ncols, rows)}
    \cup (IF ncols = 1 THEN {EventList(rows, FALSE)} ELSE {})
    \cup (IF ncols = 0 THEN {[type |-> "tuple", rows |-> rows]} ELSE {})

InitME ==
    /\ pc = "start"
    /\ raised = "none"
    /\ \E n \in 0..MaxEvents, ncols \in 0..3 :
          \E rows \in EventRows(n, ncols) :
              events_in \in MiddleEventInputs(ncols, rows)
    /\ tz \in TimeZones
    /\ middle_out = <<>>
    /\ IdleWin /\ IdleOp /\ IdleEv /\ IdleTU /\ IdleTr /\ IdleMM /\ IdleUT /\ IdleBS /\ IdleFF /\ IdleId

\* self.events = compute_middle_event(self.events)
ComputeMiddleEvent ==
    /\ pc = "start"
    /\ LET r == compute_middle_event(events_in, tz)
       IN /\ middle_out' = r.value
          /\ raised' = r.raised
    /\ pc' = "done"
    /\ UNCHANGED <<winVars, opVars, evVars, tuVars, idVars, ffVars, bsVars, trVars, mmVars, utVars,
                   events_in, tz>>

NextME == ComputeMiddleEvent

SpecME == InitME /\ [][NextME]_vars

\* The number of date columns of the events argument
DateColumns ==
    IF events_in.type = "DataFrame" THEN events_in.ncols
    ELSE IF events_in.rows = <<>> THEN 0
    ELSE IF events_in.nested THEN Len(events_in.rows[1]) ELSE 1

\* Every date of the events argument exists on the local clock
DatesExist ==
    \A i \in 1..Len(events_in.rows) : \A c \in 1..Len(events_in.rows[i]) :
        ~(tz = "DST" /\ DstStart <= events_in.rows[i][c]
                    /\ events_in.rows[i][c] < DstStart + DstJump)

\* C17: compute_middle_event returns one middle date per input event, in
\* input order: the arithmetic midpoint of start and end for a two-column
\* event and the event's own date for a one-column event; an event table
\* of more than two date columns is refused with ValueError
C17_MiddleDates ==
    (pc = "done" /\ events_in.type \in {"list", "DataFrame"} /\ DatesExist) =>
        /\ DateColumns > 2 => raised = "ValueError"
        /\ DateColumns \in {1, 2} =>
              /\ raised = "none"
              /\ Len(middle_out) = Len(events_in.rows)
              /\ \A i \in 1..Len(middle_out) :
                    IF DateColumns = 2
                    THEN 2 * middle_out[i]
                           = events_in.rows[i][1] + events_in.rows[i][2]
                    ELSE middle_out[i] = events_in.rows[i][1]

\* C18: convert_events_to_intervals returns one interval per event, in
\* order, [midpoint - r, midpoint + r] with r = floor(w_s / 2) units: the
\* midpoint is the centre of the interval and start <= end
C18_CenteredIntervals ==
    pc = "converted" =>
        /\ Len(events_as_intervals) = Len(events_out)
        /\ \A i \in 1..Len(events_out) :
              LET mid == events_out[i].middle_event
                  iv == events_as_intervals[i]
              IN /\ \E k \in 0..delta_unit_time :
                       /\ 2 * k <= delta_unit_time
                       /\ delta_unit_time < 2 * k + 2
                       /\ iv.start_time = TdSub(mid, get_timedelta(k, unit))
                       /\ iv.end_time = TdAdd(mid, get_timedelta(k, unit))
                 /\ TdSub(mid, iv.start_time) = TdSub(iv.end_time, mid)
                 /\ TdLE(iv.start_time, iv.end_time)

\* Two events, 100 units apart, with a window of 3 units: radius 1 unit
C18_Witness ==
    /\ pc = "converted"
    /\ delta_unit_time = 3
    /\ Len(events_out) = 2
    /\ events_as_intervals[2].start_time = get_timedelta(99, unit)
    /\ events_as_intervals[2].end_time = get_timedelta(101, unit)

-----------------------------------------------------------------------------
(* Fill policies of convert_dataframe_to_sliding_windows(): helpers.py *)

\* Even feature values, and NaN
FillVals == {0, 2, 4, NaN}
FillMethods ==
    {None, FILL_NAN_ZEROS, FILL_NAN_FFILL, FILL_NAN_BFILL, FILL_NAN_MEDIAN,
     "mean"}

InitFill ==
    /\ pc = "start"
    /\ raised = "none"
    /\ \E n \in 1..MaxRows : \E feats \in [1..n -> FillVals] :
          dataset = Frame([i \in 1..n |-> i - 1], feats)
    /\ width \in 1..2
    /\ step = 1
    /\ sw = <<>>
    /\ fill_method \in FillMethods
    /\ IdleOp /\ IdleEv /\ IdleTU /\ IdleTr /\ IdleMM /\ IdleUT /\ IdleME /\ IdleBS /\ IdleFF /\ IdleId

SpecFill == InitFill /\ [][NextWin]_vars

\* Rows of the dataset whose value in column c is observed
Observed(c) == { i \in 1..Len(dataset.rows) : ~IsNaN(dataset.rows[i][c]) }

\* m is the median of the observed values of column c: the mean of the
\* lower and the upper middle value
IsMedianOf(m, c) ==
    \E lo, hi \in Observed(c) :
        LET v(i) == dataset.rows[i][c]
            below(x) == Cardinality({ i \in Observed(c) : v(i) < x })
            above(x) == Cardinality({ i \in Observed(c) : v(i) > x })
            half == Cardinality(Observed(c)) \div 2
        IN /\ below(v(lo)) <= (Cardinality(Observed(c)) - 1) \div 2
           /\ above(v(lo)) <= half
           /\ below(v(hi)) <= half
           /\ above(v(hi)) <= (Cardinality(Observed(c)) - 1) \div 2
           /\ 2 * m = v(lo) + v(hi)

\* What the policy makes of the value of row r, column c
FilledAsClaimed(x, r, c) ==
    LET orig == dataset.rows[r][c]
        prior == { i \in Observed(c) : i < r }
        following == { i \in Observed(c) : i > r }
    IN IF ~IsNaN(orig) THEN x = orig
       ELSE CASE fill_method = "zeros" -> x = 0
              [] fill_method = "ffill" ->
                    IF prior = {} THEN IsNaN(x)
                    ELSE x = dataset.rows[CHOOSE i \in prior :
                                            \A j \in prior : j <= i][c]
              [] fill_method = "bfill" ->
                    IF following = {} THEN IsNaN(x)
                    ELSE x = dataset.rows[CHOOSE i \in following :
                                            \A j \in following : i <= j][c]
              [] fill_method = "median" ->
                    IF Observed(c) = {} THEN IsNaN(x) ELSE IsMedianOf(x, c)
              [] OTHER -> IsNaN(x)

\* C19: the windows are built from the values after the fill policy:
\* "zeros" puts 0 for a missing value, "ffill"/"bfill" the nearest prior /
\* following observed value of the column, "median" the median of the
\* column's observed values, no policy leaves it missing (as does a policy
\* that has no value to fill with), for a width the dataset has rows for;
\* any other policy name raises ValueError and no windows are produced
C19_FillPolicy ==
    pc = "done" =>
        IF fill_method \in {"zeros", "ffill", "bfill", "median", None}
        THEN width <= Len(dataset.rows) =>
             /\ raised = "none"
             /\ Len(sw) = Len(dataset.rows) - width + 1
             /\ \A k \in 1..Len(sw) : \A i \in 1..width :
                  \A c \in 1..Len(dataset.columns) :
                    FilledAsClaimed(sw[k][i][c], (k - 1) * step + i, c)
        ELSE raised = "ValueError" /\ sw = <<>>

\* The column (NaN, 0, NaN, 4) filled with its median 2
C19_Witness ==
    /\ pc = "done"
    /\ fill_method = "median"
    /\ width = 1
    /\ Column(dataset, 1) = <<NaN, 0, NaN, 4>>
    /\ [k \in 1..Len(sw) |-> sw[k][1][1]] = <<2, 0, 2, 4>>

-----------------------------------------------------------------------------
\* MetaModel.build_stacking_learning (metamodel/meta_model.py)

\* The order of the statements of build_stacking_learning with save_scalers
\* moved behind fitting_models
BuildOrder_FitBeforeScalers ==
    <<"create_models", "split_data_and_apply_scaler", "fitting_models",
      "save_scalers", "save_best_models", "train_meta_model",
      "set_predicted_op", "set_data_op">>

\* The statements of build_stacking_learning, in the order of the source
BuildOrder ==
    <<"create_models", "split_data_and_apply_scaler", "save_scalers",
      "fitting_models", "save_best_models", "train_meta_model",
      "set_predicted_op", "set_data_op">>

NextBuildStep ==
    IF Len(bs_done) < Len(BuildOrder) THEN BuildOrder[Len(bs_done) + 1]
    ELSE "return"

\* The model lists a MetaModel is configured with
ModelLists == {{}, {"A"}, {"A", "B"}}

\* The files of a directory after one more file was written into it
WriteFiles(disk, directory, files) ==
    [disk EXCEPT ![directory] = @ \cup files]

\* ModelCreator.create_models: one new model object for each model of the
\* configured list
create_models(names, r) == [m \in names |-> r]

\* DataSplitter.save_scalers(output_dir): the fitted scaler is written into
\* the output directory
save_scalers(disk, directory, r) ==
    WriteFiles(disk, directory, {File(r, "scaler")})

\* OptimizationData.set_predicted_op(predicted_op): the holder keeps it
set_predicted_op(predicted_y) == predicted_y

\* Plotter.set_data_op(test_y, predicted_y): the plotter keeps both
set_data_op(targets, predicted_y) ==
    [test_y |-> targets, predicted_y |-> predicted_y]

\* A constructed MetaModel whose data are prepared: the output directory
\* was created empty by this construction, nothing is fitted yet
InitBuild ==
    /\ pc = "build"
    /\ raised = "none"
    /\ models \in ModelLists
    /\ bs_done = <<>>
    /\ predicted_op = <<>>
    /\ plotter_op = <<>>
    /\ best_models = << >> /\ created_models = << >> /\ losses = << >>
    /\ epsilon = 2
    /\ calls = 0
    /\ test_y = <<>> /\ predictions = << >> /\ meta_result = <<>>
    /\ type_training \in {"average", "ffn"}
    /\ test_size = [n |-> 1, d |-> 5]
    /\ saved_models = {} /\ meta_fit = <<>>
    /\ mm_index = <<>> /\ args_valid = TRUE /\ cwd = <<"home", "pkg", "a", "b">>
    /\ output_dir_arg = [abs |-> FALSE, parts |-> <<"out">>]
    /\ output_dir = [abs |-> TRUE, parts |-> WorkingDir(cwd, output_dir_arg)]
    /\ fs = [p \in {output_dir.parts} |-> {}]
    /\ warned = FALSE /\ mm_done = CtorOrder /\ run = 1
    /\ time_sampling = <<>>
    /\ IdleWin /\ IdleOp /\ IdleEv /\ IdleTU /\ IdleUT /\ IdleME /\ IdleFF /\ IdleId

\* self.model_creator.create_models(inputs=inputs): one new model object
\* for each configured model
BuildCreateModels ==
    /\ pc = "build"
    /\ NextBuildStep = "create_models"
    /\ created_models' = create_models(models, run)
    /\ bs_done' = Append(bs_done, "create_models")
    /\ UNCHANGED <<pc, raised, winVars, opVars, evVars, tuVars, idVars, ffVars, meVars,
                   utVars, mmVars, best_models, losses, epsilon, calls,
                   test_y, predictions, meta_result, type_training,
                   test_size, saved_models, meta_fit, models, predicted_op,
                   plotter_op>>

\* self.data_splitter.split_data_and_apply_scaler(x=self.x, y=self.y): the
\* splitter holds the test targets afterwards
BuildSplitData ==
    /\ pc = "build"
    /\ NextBuildStep = "split_data_and_apply_scaler"
    /\ \E n \in 1..MaxTest : test_y' \in [1..n -> PredVals]
    /\ bs_done' = Append(bs_done, "split_data_and_apply_scaler")
    /\ UNCHANGED <<pc, raised, winVars, opVars, evVars, tuVars, idVars, ffVars, meVars,
                   utVars, mmVars, best_models, created_models, losses,
                   epsilon, calls, predictions, meta_result, type_training,
                   test_size, saved_models, meta_fit, models, predicted_op,
                   plotter_op>>

\* self.data_splitter.save_scalers(output_dir=self.output_dir)
BuildSaveScalers ==
    /\ pc = "build"
    /\ NextBuildStep = "save_scalers"
    /\ fs' = save_scalers(fs, output_dir.parts, run)
    /\ bs_done' = Append(bs_done, "save_scalers")
    /\ UNCHANGED <<pc, raised, winVars, opVars, evVars, tuVars, idVars, ffVars, meVars,
                   utVars, trVars, mm_index, args_valid, cwd, output_dir_arg,
                   output_dir, warned, mm_done, run, time_sampling, models,
                   predicted_op, plotter_op>>

\* self.model_trainer.fitting_models(self.model_creator.created_models)
BuildFittingModels ==
    /\ pc = "build"
    /\ NextBuildStep = "fitting_models"
    /\ \E ls \in [DOMAIN created_models -> LossVals] :
          LET min_loss == MinLoss(Keys(created_models), ls, Inf)
          IN /\ losses' = ls
             /\ best_models' = SelectBest(Keys(created_models), ls, min_loss,
                                          epsilon, created_models,
                                          best_models)
    /\ calls' = calls + 1
    /\ bs_done' = Append(bs_done, "fitting_models")
    /\ UNCHANGED <<pc, raised, winVars, opVars, evVars, tuVars, idVars, ffVars, meVars,
                   utVars, mmVars, created_models, epsilon, test_y,
                   predictions, meta_result, type_training, test_size,
                   saved_models, meta_fit, models, predicted_op, plotter_op>>

\* self.model_trainer.save_best_models(output_dir=self.output_dir): one
\* saved model below MODELS_DIR for each best model
BuildSaveBestModels ==
    /\ pc = "build"
    /\ NextBuildStep = "save_best_models"
    /\ fs' = WriteFiles(fs, output_dir.parts,
                        {File(run, m) : m \in DOMAIN best_models})
    /\ saved_models' = saved_models \cup DOMAIN best_models
    /\ bs_done' = Append(bs_done, "save_best_models")
    /\ UNCHANGED <<pc, raised, winVars, opVars, evVars, tuVars, idVars, ffVars, meVars,
                   utVars, best_models, created_models, losses, epsilon,
                   calls, test_y, predictions, meta_result, type_training,
                   test_size, meta_fit, mm_index, args_valid, cwd,
                   output_dir_arg, output_dir, warned, mm_done, run,
                   time_sampling, models, predicted_op, plotter_op>>

\* predicted_y, loss, test_y = self.model_trainer.train_meta_model(...):
\* ValueError of np.stack without best models and of the split without a
\* training sample; the "ffn" mode saves the network before it predicts
BuildTrainMetaModel ==
    /\ pc = "build"
    /\ NextBuildStep = "train_meta_model"
    /\ IF DOMAIN best_models = {}
       THEN /\ raised' = "ValueError"
            /\ pc' = "failed"
            /\ UNCHANGED <<predictions, meta_result, meta_fit, saved_models,
                           fs, bs_done, meta_layers>>
       ELSE \E preds \in [DOMAIN best_models -> [1..Len(test_y) -> PredVals]] :
            LET x == Stack(Keys(best_models), preds, Len(test_y))
                split == train_test_split(x, test_y, test_size)
            IN /\ predictions' = preds
               /\ IF type_training # "ffn"
                  THEN /\ meta_result' = AverageResult(x, test_y)
                       /\ bs_done' = Append(bs_done, "train_meta_model")
                       /\ UNCHANGED <<pc, raised, meta_fit, saved_models, fs,
                                      meta_layers>>
                  ELSE IF split.raised \/ RandintRaises(hyperparams_ffn)
                  THEN /\ raised' = "ValueError"
                       /\ pc' = "failed"
                       /\ UNCHANGED <<meta_result, meta_fit, saved_models,
                                      fs, bs_done, meta_layers>>
                  ELSE \E out \in [1..Len(split.test_x) -> PredVals] :
                       LET final_prediction ==
                               [i \in 1..Len(split.test_x) |->
                                   Frac(out[i], 1)]
                       IN /\ meta_layers' \in MetaNetworks(hyperparams_ffn)
                          /\ meta_fit' = [fit_x |-> split.train_x,
                                          fit_y |-> split.train_y,
                                          validation_x |-> split.test_x,
                                          validation_y |-> split.test_y,
                                          predict_x |-> split.test_x]
                          /\ saved_models' =
                                saved_models \cup {"meta_model_ffn"}
                          /\ fs' = WriteFiles(fs, output_dir.parts,
                                        {File(run, "meta_model_ffn")})
                          /\ meta_result' =
                                [final_prediction |-> final_prediction,
                                 loss |-> mse(final_prediction, split.test_y),
                                 test_y |-> split.test_y]
                          /\ bs_done' = Append(bs_done, "train_meta_model")
                          /\ UNCHANGED <<pc, raised>>
    /\ UNCHANGED <<winVars, opVars, evVars, tuVars, idVars, hyperparams_ffn, meVars,
                   utVars,
                   best_models, created_models, losses, epsilon, calls,
                   test_y, type_training, test_size, mm_index, args_valid,
                   cwd, output_dir_arg, output_dir, warned, mm_done, run,
                   time_sampling, models, predicted_op, plotter_op>>

\* self.optimization_data.set_predicted_op(predicted_op=predicted_y)
BuildSetPredictedOp ==
    /\ pc = "build"
    /\ NextBuildStep = "set_predicted_op"
    /\ predicted_op' = set_predicted_op(meta_result.final_prediction)
    /\ bs_done' = Append(bs_done, "set_predicted_op")
    /\ UNCHANGED <<pc, raised, winVars, opVars, evVars, tuVars, idVars, ffVars, meVars,
                   utVars, mmVars, trVars, models, plotter_op>>

\* self.plotter.set_data_op(test_y=test_y, predicted_y=predicted_y), the
\* last statement
BuildSetDataOp ==
    /\ pc = "build"
    /\ NextBuildStep = "set_data_op"
    /\ plotter_op' = set_data_op(meta_result.test_y,
                                 meta_result.final_prediction)
    /\ bs_done' = Append(bs_done, "set_data_op")
    /\ pc' = "built"
    /\ UNCHANGED <<raised, winVars, opVars, evVars, tuVars, idVars, ffVars, meVars, utVars,
                   mmVars, trVars, models, predicted_op>>

\* The statement about to run raises (a model that cannot be built or
\* fitted, a file that cannot be written): nothing is caught, the call ends
BuildStepRaises ==
    /\ pc = "build"
    /\ NextBuildStep # "return"
    /\ raised' = "Exception"
    /\ pc' = "failed"
    /\ UNCHANGED <<winVars, opVars, evVars, tuVars, idVars, ffVars, meVars, utVars, mmVars,
                   trVars, bsVars>>

NextBuild ==
    \/ BuildCreateModels
    \/ BuildSplitData
    \/ BuildSaveScalers
    \/ BuildFittingModels
    \/ BuildSaveBestModels
    \/ BuildTrainMetaModel
    \/ BuildSetPredictedOp
    \/ BuildSetDataOp
    \/ BuildStepRaises

SpecBuild == InitBuild /\ [][NextBuild]_vars

\* A file written by the current run lies in the output directory
OnDisk(name) == File(run, name) \in fs[output_dir.parts]

BuildStepDone(s) == \E i \in 1..Len(bs_done) : bs_done[i] = s

BestModelsOnDisk == \A m \in DOMAIN best_models : OnDisk(m)

\* C20: build_stacking_learning completes its steps in the order create
\* models, split and scale, persist the scaler, fit and select, persist the
\* best models, train or average the meta-model, set the predicted op, hand
\* the data to the plotter; the scaler is on disk whenever models have been
\* fitted, the best models are on disk whenever the meta-model has produced
\* a result, the predicted op is only ever the meta-model's prediction, and
\* no step, failing or not, removes a file of the output directory, so after
\* an error the files of the completed steps are still there
C20_BuildOrder ==
    /\ [](/\ IsPrefix(bs_done,
                <<"create_models", "split_data_and_apply_scaler",
                  "save_scalers", "fitting_models", "save_best_models",
                  "train_meta_model", "set_predicted_op", "set_data_op">>)
          /\ calls > 0 => OnDisk("scaler")
          /\ meta_result # <<>> => BestModelsOnDisk
          /\ predicted_op # <<>> =>
                /\ meta_result # <<>>
                /\ predicted_op = meta_result.final_prediction
          /\ plotter_op # <<>> =>
                /\ predicted_op # <<>>
                /\ plotter_op.predicted_y = predicted_op
          /\ pc = "failed" =>
                /\ BuildStepDone("save_scalers") => OnDisk("scaler")
                /\ BuildStepDone("save_best_models") => BestModelsOnDisk
                /\ BuildStepDone("train_meta_model")
                      /\ type_training = "ffn" => OnDisk("meta_model_ffn"))
    /\ [][fs[output_dir.parts] \subseteq fs'[output_dir.parts]]_vars

\* The "ffn" meta-model fails on a test set of one sample (no training
\* sample is left by the split): the scaler and the best model A, saved by
\* the earlier steps, are on disk and no predicted op was set
C20_Witness ==
    /\ pc = "failed"
    /\ raised = "ValueError"
    /\ type_training = "ffn"
    /\ Len(test_y) = 1
    /\ bs_done = <<"create_models", "split_data_and_apply_scaler",
                   "save_scalers", "fitting_models", "save_best_models">>
    /\ DOMAIN best_models = {"A"}
    /\ fs[output_dir.parts] = {File(run, "scaler"), File(run, "A")}
    /\ predicted_op = <<>>

-----------------------------------------------------------------------------
\* MetaModel.prepare_data_and_computing_op, from the time_window branch to
\* the sliding windows (metamodel/meta_model.py)

\* self.dataset after the time_window branch: the frame of the caller
\* itself (self.dataset = dataset in __init__, no copy) when time_window is
\* None, else the new frame pd.concat returns; window is <<>> for None and
\* <<time_window>> otherwise
SelfDataset(df, evs, window) ==
    IF window = <<>>
    THEN [raised |-> "none", own |-> FALSE, value |-> df]
    ELSE LET u == get_union_times_events(evs, window[1])
             w == get_dataset_within_events_times(df, u.value)
         IN IF u.raised # "none"
            THEN [raised |-> u.raised, own |-> FALSE, value |-> df]
            ELSE IF w.raised # "none"
            THEN [raised |-> w.raised, own |-> FALSE, value |-> df]
            ELSE [raised |-> "none", own |-> TRUE, value |-> w.value]

\* A MetaModel holding the caller's dataset, before the time_window branch
\* of prepare_data_and_computing_op; time_window may be None
InitPrep ==
    /\ pc = "prepare"
    /\ raised = "none"
    /\ ev_times \in UnionEvents
    /\ time_window \in {<<>>} \cup { <<h>> : h \in 1..MaxHalf }
    /\ events_times = <<>>
    /\ within = <<>>
    /\ dataset \in UnionDatasets
    /\ width \in 1..2 /\ step = 1 /\ sw = <<>> /\ fill_method = None
    /\ IdleOp /\ IdleEv /\ IdleTU /\ IdleTr /\ IdleMM /\ IdleME /\ IdleBS /\ IdleFF /\ IdleId

\* The time_window branch and convert_dataframe_to_sliding_windows(
\* self.dataset, ...): the frame self.dataset refers to gets the time
\* column, which is the caller's frame unless the branch replaced it
PrepareDataAndComputingOp ==
    /\ pc = "prepare"
    /\ LET self_dataset == SelfDataset(dataset, ev_times, time_window)
           df == SetTimeColumn(self_dataset.value)
           filled == fill(df, fill_method)
           r == IF filled.raised # "none"
                THEN [raised |-> filled.raised, value |-> <<>>]
                ELSE sliding_windows(to_numpy(filled.value), width, step)
       IN IF self_dataset.raised # "none"
          THEN /\ raised' = self_dataset.raised
               /\ UNCHANGED <<dataset, within, sw>>
          ELSE /\ raised' = r.raised
               /\ sw' = r.value
               /\ IF self_dataset.own
                  THEN within' = df /\ UNCHANGED dataset
                  ELSE dataset' = df /\ UNCHANGED within
    /\ pc' = "done"
    /\ UNCHANGED <<width, step, fill_method, opVars, evVars, tuVars, idVars, ffVars, bsVars,
                   meVars, trVars, mmVars, ev_times, time_window,
                   events_times>>

NextPrep == PrepareDataAndComputingOp

SpecPrep == InitPrep /\ [][NextPrep]_vars

-----------------------------------------------------------------------------
\* The network of the "ffn" meta-model, over the hyperparameters

\* Hyperparameters (max_layers, min_units, max_units), among them a unit
\* range that is empty
HyperparamsFFN == (1..MaxLayers) \X (1..MaxUnits) \X (1..MaxUnits)

\* A trainer with one best model and two test samples, in "ffn" mode
InitFFN ==
    /\ pc = "trainer"
    /\ raised = "none"
    /\ best_models = [m \in {"A"} |-> 1]
    /\ created_models = << >>
    /\ losses = << >>
    /\ epsilon = 2
    /\ calls = 1
    /\ test_y \in [1..2 -> PredVals]
    /\ predictions = << >>
    /\ meta_result = <<>>
    /\ type_training = "ffn"
    /\ test_size = [n |-> 1, d |-> 5]
    /\ saved_models = {}
    /\ meta_fit = <<>>
    /\ hyperparams_ffn \in HyperparamsFFN
    /\ meta_layers = <<>>
    /\ IdleWin /\ IdleOp /\ IdleEv /\ IdleTU /\ IdleMM /\ IdleUT /\ IdleME /\ IdleId
    /\ IdleBS

NextFFN ==
    \/ TrainMetaModelFFNFit
    \/ TrainMetaModelFFNSave
    \/ TrainMetaModelFFNReturn

SpecFFN == InitFFN /\ [][NextFFN]_vars

HiddenLayers(layers) == SubSeq(layers, 1, Len(layers) - 1)

\* C22: the meta-model network has a randomly chosen number of hidden
\* layers between 1 and max_layers, every depth in that range being
\* possible, each with a unit count in [min_units, max_units], unit counts
\* not increasing with depth, then one output layer of one unit without
\* dropout
C22_RandomDepth ==
    pc = "ffn_fitted" =>
        LET max_layers == hyperparams_ffn[1]
            min_units == hyperparams_ffn[2]
            max_units == hyperparams_ffn[3]
            hidden == HiddenLayers(meta_layers)
        IN /\ Len(hidden) \in 1..max_layers
           /\ \A depth \in 1..max_layers :
                \E net \in MetaNetworks(hyperparams_ffn) :
                    Len(HiddenLayers(net)) = depth
           /\ \A j \in 1..Len(hidden) :
                hidden[j].units \in min_units..max_units
           /\ \A j \in 1..(Len(hidden) - 1) :
                hidden[j].units >= hidden[j + 1].units
           /\ Last(meta_layers) = [units |-> 1, dropout |-> None]

-----------------------------------------------------------------------------
\* The cursor of op()

CursorInRange == starting_event_index \in 0..Len(events_as_intervals)

\* The events (positions in the list) the cursor moves past in this step
NewlyPassed ==
    { i \in 1..Len(events_as_intervals) :
        starting_event_index < i /\ i <= starting_event_index' }

\* The cursor does not move back, and each event it moves past ends at or
\* before the start of the window of this step
CursorAdvance ==
    /\ starting_event_index' >= starting_event_index
    /\ \A i \in NewlyPassed :
          /\ widx' = widx + 1
          /\ events_as_intervals[i].end_time
                <= WindowInterval(sw[widx + 1]).start_time

\* No event behind the cursor overlaps the window just handled or a later one
PassedEventsClear ==
    \A i \in 1..starting_event_index : \A k \in 1..Len(sw) :
        k >= widx =>
            overlapping_parameter(WindowInterval(sw[k]),
                                  events_as_intervals[i]) = FracZero

\* The first event at or behind the cursor position c (0-based) whose
\* overlapping_parameter with the window is 0 (one past the list when none)
FirstZeroFrom(window, c) ==
    LET zeros == { j \in (c + 1)..Len(events_as_intervals) :
                     overlapping_parameter(WindowInterval(window),
                                           events_as_intervals[j]) = FracZero }
    IN IF zeros = {} THEN Len(events_as_intervals) + 1
       ELSE CHOOSE j \in zeros : \A l \in zeros : j <= l

\* The value of the window just handled is the largest overlapping_parameter
\* of the events from the cursor up to the first one of overlap 0: nothing
\* at or after that event was taken into account
StopsAtFirstZero ==
    widx >= 1 /\ Len(op_values) = widx =>
        LET window == sw[widx]
            stop == FirstZeroFrom(window, starting_event_index)
            ps == { overlapping_parameter(WindowInterval(window),
                                          events_as_intervals[j]) :
                      j \in (starting_event_index + 1)..(stop - 1) }
                  \cup {FracZero}
        IN /\ op_values[widx] \in ps
           /\ \A q \in ps : FracLE(q, op_values[widx])

\* C23 as stated: the cursor never decreases and stays between 0 and the
\* number of events; every event it passes ends at or before the start of
\* the window that advanced it, so for windows in start-time order no passed
\* event overlaps the current or a later window; the scan of a window stops
\* at the first not-yet-passed event of overlap 0
C23_Original ==
    /\ [](/\ CursorInRange
          /\ WindowsInStartOrder => PassedEventsClear
          /\ StopsAtFirstZero)
    /\ [][CursorAdvance]_vars

\* C23 amended: the cursor never decreases and stays in range for any
\* events; for event intervals whose end times are non-decreasing along the
\* list, every passed event ends at or before the start of the window that
\* advanced the cursor, no passed event overlaps the current or a later
\* window when the windows are in start-time order, and the scan stops at
\* the first not-yet-passed event of overlap 0
C23_MonotonicCursor ==
    /\ [](/\ CursorInRange
          /\ EventsSortedByEnd =>
                /\ WindowsInStartOrder => PassedEventsClear
                /\ StopsAtFirstZero)
    /\ [][/\ starting_event_index' >= starting_event_index
          /\ EventsSortedByEnd => CursorAdvance]_vars

\* Events [0,1] and [1,3], windows of two rows: the window [0,1] stops at
\* the second event (overlap 0) with the value 1, and the window [1,2]
\* moves the cursor past the first event and overlaps the second by 1/2
C23_Witness ==
    /\ EventsSortedByEnd /\ WindowsInStartOrder
    /\ Len(events_as_intervals) = 2
    /\ events_as_intervals[1] = Interval(0, 1)
    /\ events_as_intervals[2] = Interval(1, 3)
    /\ width = 2 /\ step = 1
    /\ widx = 2
    /\ starting_event_index = 1
    /\ op_values = <<FracOne, Frac(1, 2)>>

-----------------------------------------------------------------------------
\* The intervals prepare_data_and_computing_op hands to op()

IntervalsSortedByStart ==
    \A i \in 1..Len(events_as_intervals) : \A j \in i..Len(events_as_intervals) :
        TdLE(events_as_intervals[i].start_time,
             events_as_intervals[j].start_time)

IntervalsDisjoint ==
    \A i \in 1..Len(events_as_intervals) :
        \A j \in (i + 1)..Len(events_as_intervals) :
            TdLT(events_as_intervals[i].end_time,
                 events_as_intervals[j].start_time)

\* C24: for events sorted by time, the events kept by remove_close_events
\* with gap w_s have consecutive midpoints more than w_s apart, each
\* interval built from them reaches floor(w_s / 2) units to both sides of
\* its midpoint, and so the intervals handed to op() are sorted by start
\* time and each ends strictly before the next starts
C24_DisjointIntervals ==
    (pc = "converted" /\ EventsSorted) =>
        /\ \A k \in 1..(Len(events_out) - 1) :
              TdLT(MinimumGap,
                   TdSub(events_out[k + 1].middle_event,
                         events_out[k].middle_event))
        /\ Len(events_as_intervals) = Len(events_out)
        /\ \A k \in 1..Len(events_out) :
              /\ TdSub(events_out[k].middle_event,
                       events_as_intervals[k].start_time)
                    = get_timedelta(delta_unit_time \div 2, unit)
              /\ TdSub(events_as_intervals[k].end_time,
                       events_out[k].middle_event)
                    = get_timedelta(delta_unit_time \div 2, unit)
        /\ IntervalsSortedByStart
        /\ IntervalsDisjoint

\* Midpoints 0, 1, 3 with w_s = 1: the event at 1 is removed and the
\* intervals of the two others, of radius 0, are apart
C24_Witness ==
    /\ pc = "converted"
    /\ delta_unit_time = 1
    /\ events_df = EventsTable(<<0, 1, 3>>, unit)
    /\ events_out = <<events_df[1], events_df[3]>>
    /\ events_as_intervals =
          <<Interval(get_timedelta(0, unit), get_timedelta(0, unit)),
            Interval(get_timedelta(3, unit), get_timedelta(3, unit))>>

-----------------------------------------------------------------------------
\* remove_close_events applied twice

\* remove_close_events(events, delta_unit_time, unit) on the events a first
\* call has returned, with the same minimum gap and unit
RemoveCloseEventsAgain ==
    /\ pc = "done"
    /\ events_again' = remove_close_events(events_out, delta_unit_time, unit)
    /\ pc' = "again"
    /\ UNCHANGED <<raised, winVars, opVars, evVars, tuVars, ffVars, bsVars,
                   meVars, utVars, mmVars, trVars>>

NextTwice == RemoveCloseEvents \/ RemoveCloseEventsAgain

SpecTwice == InitEv /\ [][NextTwice]_vars

\* C25: for events sorted by time, remove_close_events applied to its own
\* output with the same minimum gap and unit removes nothing: it returns
\* the same events in the same order
C25_Idempotent ==
    (pc = "again" /\ EventsSorted) => events_again = events_out

\* Midpoints 0, 1, 2 with gap 1: the first call keeps 0 and 2, and so does
\* the second
C25_Witness ==
    /\ pc = "again"
    /\ delta_unit_time = 1
    /\ events_df = EventsTable(<<0, 1, 2>>, unit)
    /\ events_out = <<events_df[1], events_df[3]>>
    /\ events_again = events_out

-----------------------------------------------------------------------------
\* One trainer over several fitting_models calls, then saved and stacked

\* A trainer as ModelTrainer.__init__ leaves it, with a data splitter
\* holding one test sample, in averaging mode
InitStale ==
    /\ pc = "trainer"
    /\ raised = "none"
    /\ best_models = << >>
    /\ created_models = << >>
    /\ losses = << >>
    /\ epsilon \in EpsilonVals
    /\ calls = 0
    /\ test_y \in [1..1 -> PredVals]
    /\ predictions = << >>
    /\ meta_result = <<>>
    /\ type_training = "average"
    /\ test_size = [n |-> 1, d |-> 5]
    /\ saved_models = {}
    /\ meta_fit = <<>>
    /\ IdleWin /\ IdleOp /\ IdleEv /\ IdleTU /\ IdleMM /\ IdleUT /\ IdleME
    /\ IdleBS /\ IdleFF /\ IdleId

\* save_best_models(output_dir): every entry of best_models is saved under
\* MODELS_DIR by its name
SaveBestModels ==
    /\ pc = "trainer"
    /\ saved_models' = saved_models \cup DOMAIN best_models
    /\ UNCHANGED <<pc, raised, winVars, opVars, evVars, tuVars, ffVars,
                   bsVars, meVars, utVars, mmVars, idVars, best_models,
                   created_models, losses, epsilon, calls, test_y,
                   predictions, meta_result, type_training, test_size,
                   meta_fit>>

NextStale ==
    \/ FittingModels
    \/ SaveBestModels
    \/ TrainMetaModelNoModels
    \/ TrainMetaModelAverage

SpecStale == InitStale /\ [][NextStale]_vars

\* An entry of best_models that the fitting_models call of this step does
\* not select: its name is not among the call's models, or its loss lies
\* outside the call's epsilon band
NotSelectedNow(m) ==
    \/ m \notin DOMAIN created_models'
    \/ ~InBand(losses'[m],
               MinLoss(Keys(created_models'), losses', Inf), epsilon)

\* C26: no call removes an entry of best_models; an entry that a later
\* fitting_models call does not select stays as it is; save_best_models
\* saves every entry and train_meta_model stacks a prediction of every
\* entry, those of earlier calls included
C26_BestModelsOnlyGrow ==
    /\ [][/\ DOMAIN best_models \subseteq DOMAIN best_models'
          /\ \A m \in DOMAIN best_models :
                (calls' = calls + 1 /\ NotSelectedNow(m)) =>
                    best_models'[m] = best_models[m]
          /\ saved_models' # saved_models =>
                DOMAIN best_models \subseteq saved_models'
          /\ predictions' # predictions =>
                DOMAIN predictions' = DOMAIN best_models]_vars
    /\ [](pc = "done" /\ raised = "none" =>
             /\ DOMAIN predictions = DOMAIN best_models
             /\ Len(meta_result.final_prediction) = Len(test_y))

\* Model A, selected by the first call, is not among the models of the
\* second call (B alone): it is still in best_models with the object of
\* the first call, it was saved after the second call and its prediction
\* is stacked with B's
C26_Witness ==
    /\ pc = "done"
    /\ calls = 2
    /\ DOMAIN created_models = {"B"}
    /\ DOMAIN best_models = {"A", "B"}
    /\ best_models["A"] = 1 /\ best_models["B"] = 2
    /\ saved_models = {"A", "B"}
    /\ DOMAIN predictions = {"A", "B"}

=============================================================================
